---- MODULE Spec2Model ----
(***************************************************************************)
(* Leader/Worker task orchestration of the AI CLI:                         *)
(*   TaskManager        src/tools/core/task_manager.py                      *)
(*   ModelInterface     src/tools/core/leader_worker.py  (retry loop)       *)
(*   LeaderAI           src/tools/core/leader_worker.py  (assignment,       *)
(*                      execution groups, context compaction)               *)
(***************************************************************************)
EXTENDS Integers, Sequences, FiniteSets, TLC

VARIABLES
    tasks,          \* TaskManager.tasks_data["tasks"]: list of task records
    statistics,     \* TaskManager.tasks_data["statistics"]
    projectStatus,  \* TaskManager.tasks_data["status"]
    tasksFile,      \* contents of tasks.json as last written by _save_tasks
    now,            \* the wall clock second (strftime %Y%m%d%H%M%S) of the operations
    pc,             \* where the Leader session is
    cur,            \* id of the task the serial Worker is executing
    toolResult,     \* class of the text the last task-management tool call returned
    run,            \* the assign_tasks_parallel run in progress
    messages,       \* LeaderAI.messages, the Leader's conversation history
    historyFile,    \* contents of the history file as last written by _save_history
    compressed,     \* what _manage_context returned ("True", "False"), "none" before the call
    groupTasks,     \* the task list handed to _get_execution_groups
    executionGroups,\* what _get_execution_groups returned, NoGroups before the call
    client,         \* ModelInterface.client is set (_init_client succeeded)
    attempt,        \* the loop variable of the model call's retry loop
    outcomes,       \* what each client.chat.completions.create of the call did
    callResult,     \* what the model call returned, NoResult while it is running
    chunks,         \* the chunks of the stream client.chat.completions.create returned
    streamed,       \* full_content and tool_calls as the stream loop has built them
    script,         \* what the Worker's model answers while it asks for tools
    wpc,            \* where the Worker is: "idle", "loop", "tools", "returned"
    iteration,      \* WorkerAI._execution_loop: iteration
    workerMessages, \* WorkerAI._execution_loop: messages
    toolCalls,      \* the tool calls of the response still to be handled
    workerReturn,   \* what WorkerAI.execute returned, NoReturn before
    leaderScript,   \* what the Leader's model answers while it asks for tools
    leaderIteration,\* LeaderAI._handle_tool_calls_loop: iteration
    leaderToolCalls,\* the tool calls of the Leader's response still to be handled
    sent,           \* the message list of the Leader's last model call
    storeCall,      \* the last set_task_status call: its arguments and what it returned
    mcpPermissions, \* LeaderAI._mcp_permissions
    permission,     \* the last permission call: its tool name and what it returned
    provided        \* what the provider gave to call_async, and whether tools were passed

storeVars == <<tasks, statistics, projectStatus, tasksFile, now>>
leaderVars == <<pc, cur, toolResult, run>>
contextVars == <<messages, historyFile, compressed>>
groupVars == <<groupTasks, executionGroups>>
modelVars == <<client, attempt, outcomes, callResult>>
streamVars == <<chunks, streamed>>
workerVars == <<script, wpc, iteration, workerMessages, toolCalls, workerReturn>>
turnVars == <<leaderScript, leaderIteration, leaderToolCalls, sent>>
callVars == <<storeCall, mcpPermissions, permission, provided>>

-----------------------------------------------------------------------------
(* Bounds of the model *)

MaxTasks == 2       \* tasks held by the store at one time
MaxNotes == 1       \* notes appended to the tasks of the store
MaxGroupTasks == 3  \* tasks of a list handed to _get_execution_groups
HistorySpread == 3  \* how far a history's length lies from the limit of _manage_context
MaxChunks == 3      \* chunks of a stream
MaxIndex == 1       \* the highest index a tool-call fragment of a stream carries
MaxToolCalls == 2   \* tool calls one response of the Worker's model carries

-----------------------------------------------------------------------------
(* Values *)

Statuses == {"pending", "in_progress", "completed", "failed"}

\* An id no task of the store carries (the model may name any string).
UnknownId == <<0, 0>>

NoTask == <<>>

FILES == {"a.py", "b.py"}

\* files_to_modify lists a create_task tool call of the session may carry.
FileLists == {<<>>, <<"a.py">>}

DefaultPriority == 3

Priorities == {1, DefaultPriority}

\* A message of a conversation: content 0 stands for no content, any other number
\* for one text; tool_calls tells whether the message carries tool calls.
Message(role, content, calls) == [role |-> role, content |-> content, tool_calls |-> calls]

\* _load_history: [{"role": "system", "content": self._build_system_prompt()}]
SystemMessage == Message("system", 1, FALSE)

-----------------------------------------------------------------------------
(* ModelInterface: the retry loop of call and call_with_messages *)

MAX_RETRIES == 3

\* str.lower() on the words the error messages below are made of.
Lower(w) ==
    CASE w = "Rate" -> "rate"
      [] w = "Request" -> "request"
      [] w = "Connection" -> "connection"
      [] w = "Limit" -> "limit"
      [] OTHER -> w

\* An error message is a sequence of words; str(error).lower()
LowerStr(e) == [k \in DOMAIN e |-> Lower(e[k])]

\* retry_keywords, line 116-121, each as its sequence of words.
RetryKeywords ==
    {<<"rate", "limit">>, <<"429">>, <<"too", "many", "requests">>,
     <<"timeout">>, <<"timed", "out">>, <<"connection">>,
     <<"network">>, <<"temporary">>, <<"unavailable">>,
     <<"overloaded">>, <<"capacity">>}

\* kw in error_str: the words of kw stand in str one after another.
Contains(str, kw) ==
    \E i \in 1..(Len(str) - Len(kw) + 1) : SubSeq(str, i, i + Len(kw) - 1) = kw

\* _should_retry with a keyword matching as soon as one of its words is there.
ShouldRetryAnyWord(e) ==
    \E kw \in RetryKeywords : \E i \in DOMAIN kw : \E k \in DOMAIN e : Lower(e[k]) = kw[i]

\* _should_retry
ShouldRetry(e) == \E kw \in RetryKeywords : Contains(LowerStr(e), kw)

\* The retry condition with one retry fewer.
RetryAgainOneFewer(e, att) == ShouldRetry(e) /\ att < MAX_RETRIES - 1

\* line 565: if self._should_retry(e) and attempt < self.MAX_RETRIES
RetryAgain(e, att) == ShouldRetry(e) /\ att < MAX_RETRIES

\* Messages of the exceptions the client raises: ones that carry a retry keyword
\* and ones that do not.
TransientErrors ==
    {<<"Rate", "limit", "exceeded">>, <<"Error", "code", "429">>,
     <<"Request", "timed", "out">>, <<"Connection", "refused">>}

PermanentErrors ==
    {<<"Incorrect", "API", "key">>, <<"Limit", "the", "request", "rate">>}

NoResult == [kind |-> "none"]

\* return "客户端未初始化", []
NotInitialized == [kind |-> "error", text |-> <<"client not initialized">>, tool_calls |-> <<>>]

\* error_msg = f"调用失败 (重试 {MAX_RETRIES} 次后): {last_error}"; return error_msg, []
CallFailed(lastError) ==
    [kind |-> "error", text |-> <<"call failed after retries", MAX_RETRIES, lastError>>,
     tool_calls |-> <<>>]

\* line 483-484: a call on an interface without client returns at once.
CallWithoutClient ==
    /\ ~client
    /\ callResult = NoResult
    /\ callResult' = NotInitialized
    /\ UNCHANGED <<client, attempt, outcomes>>
    /\ UNCHANGED <<storeVars, leaderVars, contextVars, groupVars>>
    /\ UNCHANGED <<streamVars, workerVars, turnVars, callVars>>

\* One pass of the loop in which client.chat.completions.create and the reading of
\* the response go through: the content and the tool calls are returned.
ClientReturns ==
    /\ client
    /\ callResult = NoResult
    /\ outcomes' = Append(outcomes, [raised |-> FALSE])
    /\ \E calls \in {<<>>, <<"call_1">>} :
          callResult' = [kind |-> "response", text |-> <<"content">>, tool_calls |-> calls]
    /\ UNCHANGED <<client, attempt>>
    /\ UNCHANGED <<storeVars, leaderVars, contextVars, groupVars>>
    /\ UNCHANGED <<streamVars, workerVars, turnVars, callVars>>

\* One pass of the loop in which the try block raises e (line 562-574): either
\* the loop sleeps and goes to the next attempt, or it breaks and the call
\* returns the error text with no tool calls.
ClientRaises ==
    /\ client
    /\ callResult = NoResult
    /\ \E e \in TransientErrors \cup PermanentErrors :
          /\ outcomes' = Append(outcomes, [raised |-> TRUE, message |-> e])
          /\ IF RetryAgain(e, attempt)
             THEN attempt' = attempt + 1 /\ UNCHANGED callResult
             ELSE callResult' = CallFailed(e) /\ UNCHANGED attempt
    /\ UNCHANGED client
    /\ UNCHANGED <<storeVars, leaderVars, contextVars, groupVars>>
    /\ UNCHANGED <<streamVars, workerVars, turnVars, callVars>>

-----------------------------------------------------------------------------
(* TaskManager *)

CountStatus(ts, s) == Cardinality({i \in DOMAIN ts : ts[i].status = s})

\* _update_statistics
UpdateStatistics(ts) ==
    [total       |-> Len(ts),
     pending     |-> CountStatus(ts, "pending"),
     in_progress |-> CountStatus(ts, "in_progress"),
     completed   |-> CountStatus(ts, "completed"),
     failed      |-> CountStatus(ts, "failed")]

\* _create_empty_tasks
EmptyStatistics ==
    [total |-> 0, pending |-> 0, in_progress |-> 0, completed |-> 0, failed |-> 0]

\* _save_tasks without its call of _update_statistics.
SaveTasksStaleStatistics(ts, ps) ==
    /\ tasks' = ts
    /\ projectStatus' = ps
    /\ statistics' = statistics
    /\ tasksFile' = [tasks |-> ts, statistics |-> statistics, status |-> ps]

\* _save_tasks that recomputes the statistics and leaves the file as it is.
SaveTasksUnwritten(ts, ps) ==
    /\ tasks' = ts
    /\ projectStatus' = ps
    /\ statistics' = UpdateStatistics(ts)
    /\ tasksFile' = tasksFile

\* _save_tasks: recompute the statistics, then rewrite the whole document.
SaveTasks(ts, ps) ==
    /\ tasks' = ts
    /\ projectStatus' = ps
    /\ statistics' = UpdateStatistics(ts)
    /\ tasksFile' = [tasks |-> ts, statistics |-> UpdateStatistics(ts), status |-> ps]

\* _load_tasks, line 29-36: the document json.load reads from the file; every
\* value _save_tasks writes (texts, numbers, lists, None) is read back as written.
LoadTasks(file) ==
    [tasks |-> file.tasks, statistics |-> file.statistics, status |-> file.status]

\* task_id = f"task_{now:%Y%m%d%H%M%S}_{len(tasks) + 1}"
NewTaskId(ts, clock) == <<clock, Len(ts) + 1>>

NewTask(ts, clock, deps, files, prio) ==
    [id |-> NewTaskId(ts, clock),
     status |-> "pending",
     dependencies |-> deps,
     files_to_modify |-> files,
     priority |-> prio,
     notes |-> 0]

\* get_task: the first task of the list carrying the id, 0 when there is none.
GetTask(ts, id) ==
    IF \E i \in DOMAIN ts : ts[i].id = id
    THEN CHOOSE i \in DOMAIN ts : ts[i].id = id /\ \A j \in 1..(i - 1) : ts[j].id # id
    ELSE 0

TaskIds(ts) == {ts[i].id : i \in DOMAIN ts}

\* create_task
CreateTask(deps, files, prio) ==
    /\ Len(tasks) < MaxTasks
    /\ SaveTasks(Append(tasks, NewTask(tasks, now, deps, files, prio)), projectStatus)
    /\ UNCHANGED now

\* update_task(task_id, status=...): no such id returns False before anything is
\* written; otherwise the field of the first task carrying the id is set and the
\* document saved.  set_task_status builds the update and checks nothing else.
SetTaskStatus(ts, id, status) ==
    IF GetTask(ts, id) = 0 THEN ts
    ELSE [ts EXCEPT ![GetTask(ts, id)].status = status]

\* update_task(task_id, priority=...)
SetTaskPriority(ts, id, prio) ==
    IF GetTask(ts, id) = 0 THEN ts
    ELSE [ts EXCEPT ![GetTask(ts, id)].priority = prio]

\* add_note
AddNoteTo(ts, id) ==
    IF GetTask(ts, id) = 0 THEN ts
    ELSE [ts EXCEPT ![GetTask(ts, id)].notes = @ + 1]

\* A clearing that removes the failed tasks with the completed ones.
ClearFinished(ts) == SelectSeq(ts, LAMBDA t : t.status \notin {"completed", "failed"})

\* clear_completed_tasks
ClearCompleted(ts) == SelectSeq(ts, LAMBDA t : t.status # "completed")

\* reset_all_tasks
ResetAll(ts) == [i \in DOMAIN ts |-> [ts[i] EXCEPT !.status = "pending"]]

\* The status map get_ready_tasks and _assign_tasks_parallel_smart build,
\* {t["id"]: t["status"] for t in tasks}: of several tasks with one id the last wins;
\* .get() of an id that is not there gives None.
TaskStatusMap(ts, id) ==
    IF \E i \in DOMAIN ts : ts[i].id = id
    THEN ts[CHOOSE i \in DOMAIN ts :
                ts[i].id = id /\ \A j \in DOMAIN ts : ts[j].id = id => j <= i].status
    ELSE "None"

\* get_ready_tasks, line 206-217: pending, and every dependency maps to completed.
IsReady(ts, i) ==
    /\ ts[i].status = "pending"
    /\ \A d \in ts[i].dependencies : TaskStatusMap(ts, d) = "completed"

\* list.sort(key=priority) is stable: an element goes behind every element whose
\* key is not greater.
RECURSIVE InsertByPriority(_, _, _)
InsertByPriority(ts, sorted, i) ==
    IF sorted = <<>> THEN <<i>>
    ELSE IF ts[Head(sorted)].priority <= ts[i].priority
         THEN <<Head(sorted)>> \o InsertByPriority(ts, Tail(sorted), i)
         ELSE <<i>> \o sorted

RECURSIVE SortByPriority(_, _)
SortByPriority(ts, idx) ==
    IF idx = <<>> THEN <<>>
    ELSE InsertByPriority(ts, SortByPriority(ts, SubSeq(idx, 1, Len(idx) - 1)), idx[Len(idx)])

\* get_ready_tasks: the positions (in the task list) of the tasks it returns, in
\* the order it returns them.
GetReadyTasks(ts) ==
    SortByPriority(ts, SelectSeq([i \in DOMAIN ts |-> i], LAMBDA i : IsReady(ts, i)))

-----------------------------------------------------------------------------
(* TaskManager operations as steps (the store used directly, Leader at its prompt) *)

\* dependencies a create_task call may name: none, one id of the store, or every
\* id of the store.
DepChoices(ts) == {{}} \cup {{d} : d \in TaskIds(ts)} \cup {TaskIds(ts)}

TotalNotes(ts) == IF ts = <<>> THEN 0 ELSE
    LET RECURSIVE Sum(_)
        Sum(k) == IF k = 0 THEN 0 ELSE ts[k].notes + Sum(k - 1)
    IN  Sum(Len(ts))

StoreCreateTask ==
    /\ pc = "idle"
    /\ \E deps \in DepChoices(tasks), prio \in Priorities : CreateTask(deps, <<>>, prio)
    /\ UNCHANGED leaderVars
    /\ UNCHANGED <<contextVars, groupVars, modelVars>>
    /\ UNCHANGED <<streamVars, workerVars, turnVars, callVars>>

StoreSetTaskStatus ==
    /\ pc = "idle"
    /\ \E id \in TaskIds(tasks) \cup {UnknownId}, s \in Statuses :
          IF GetTask(tasks, id) = 0
          THEN UNCHANGED storeVars
          ELSE SaveTasks(SetTaskStatus(tasks, id, s), projectStatus) /\ UNCHANGED now
    /\ UNCHANGED leaderVars
    /\ UNCHANGED <<contextVars, groupVars, modelVars>>
    /\ UNCHANGED <<streamVars, workerVars, turnVars, callVars>>

StoreUpdateTask ==
    /\ pc = "idle"
    /\ \E id \in TaskIds(tasks) \cup {UnknownId}, prio \in Priorities :
          IF GetTask(tasks, id) = 0
          THEN UNCHANGED storeVars
          ELSE SaveTasks(SetTaskPriority(tasks, id, prio), projectStatus) /\ UNCHANGED now
    /\ UNCHANGED leaderVars
    /\ UNCHANGED <<contextVars, groupVars, modelVars>>
    /\ UNCHANGED <<streamVars, workerVars, turnVars, callVars>>

StoreAddNote ==
    /\ pc = "idle"
    /\ \E id \in TaskIds(tasks) \cup {UnknownId} :
          IF GetTask(tasks, id) = 0
          THEN UNCHANGED storeVars
          ELSE /\ TotalNotes(tasks) < MaxNotes
               /\ SaveTasks(AddNoteTo(tasks, id), projectStatus)
               /\ UNCHANGED now
    /\ UNCHANGED leaderVars
    /\ UNCHANGED <<contextVars, groupVars, modelVars>>
    /\ UNCHANGED <<streamVars, workerVars, turnVars, callVars>>

ClearCompletedTasks ==
    /\ pc = "idle"
    /\ SaveTasks(ClearCompleted(tasks), projectStatus)
    /\ UNCHANGED <<now, leaderVars>>
    /\ UNCHANGED <<contextVars, groupVars, modelVars>>
    /\ UNCHANGED <<streamVars, workerVars, turnVars, callVars>>

ResetAllTasks ==
    /\ pc = "idle"
    /\ SaveTasks(ResetAll(tasks), projectStatus)
    /\ UNCHANGED <<now, leaderVars>>
    /\ UNCHANGED <<contextVars, groupVars, modelVars>>
    /\ UNCHANGED <<streamVars, workerVars, turnVars, callVars>>

SetProjectStatus ==
    /\ pc = "idle"
    /\ \E ps \in {"idle", "running"} : SaveTasks(tasks, ps)
    /\ UNCHANGED <<now, leaderVars>>
    /\ UNCHANGED <<contextVars, groupVars, modelVars>>
    /\ UNCHANGED <<streamVars, workerVars, turnVars, callVars>>

-----------------------------------------------------------------------------
(* LeaderAI: serial assignment *)

\* _check_unmet_dependencies that asks only whether the dependency exists.
CheckUnknownDependencies(ts, deps) == {d \in deps : GetTask(ts, d) = 0}

\* _check_unmet_dependencies: looks each dependency up with get_task.
CheckUnmetDependencies(ts, deps) ==
    {d \in deps : GetTask(ts, d) = 0 \/ ts[GetTask(ts, d)].status # "completed"}

\* _handle_tool_calls_loop, name == "create_task"
ToolCreateTask ==
    /\ pc = "idle"
    /\ \E deps \in DepChoices(tasks), files \in FileLists :
          CreateTask(deps, files, DefaultPriority)
    /\ toolResult' = "created"
    /\ UNCHANGED <<pc, cur, run>>
    /\ UNCHANGED <<contextVars, groupVars, modelVars>>
    /\ UNCHANGED <<streamVars, workerVars, turnVars, callVars>>

\* The checks of assign_task without the one of the status.
AssignTaskErrorAnyStatus(ts, id) ==
    IF GetTask(ts, id) = 0 THEN "not_found"
    ELSE IF CheckUnmetDependencies(ts, ts[GetTask(ts, id)].dependencies) # {}
         THEN "unmet_dependencies"
    ELSE "none"

\* _handle_tool_calls_loop, name == "assign_task", line 1061-1072: the error the
\* call answers with, "none" when the task goes to a Worker.
AssignTaskError(ts, id) ==
    IF GetTask(ts, id) = 0 THEN "not_found"
    ELSE IF ts[GetTask(ts, id)].status # "pending" THEN "not_pending"
    ELSE IF CheckUnmetDependencies(ts, ts[GetTask(ts, id)].dependencies) # {}
         THEN "unmet_dependencies"
    ELSE "none"

\* _handle_tool_calls_loop, name == "assign_task", with _assign_task_to_worker up
\* to its await of worker.execute().
ToolAssignTask ==
    /\ pc = "idle"
    /\ \E id \in TaskIds(tasks) \cup {UnknownId} :
          IF AssignTaskError(tasks, id) # "none"
          THEN /\ toolResult' = AssignTaskError(tasks, id)
               /\ UNCHANGED <<storeVars, pc, cur>>
          ELSE /\ SaveTasks(SetTaskStatus(tasks, id, "in_progress"), projectStatus)
               /\ pc' = "worker"
               /\ cur' = id
               /\ toolResult' = "none"
               /\ UNCHANGED now
    /\ UNCHANGED run
    /\ UNCHANGED <<contextVars, groupVars, modelVars>>
    /\ UNCHANGED <<streamVars, workerVars, turnVars, callVars>>

\* _assign_task_to_worker after worker.execute() returned (success, result).
WorkerReturns ==
    /\ pc = "worker"
    /\ \E success \in BOOLEAN :
          /\ SaveTasks(SetTaskStatus(tasks, cur, IF success THEN "completed" ELSE "failed"),
                       projectStatus)
          /\ toolResult' = IF success THEN "task_completed" ELSE "task_failed"
    /\ pc' = "idle"
    /\ cur' = NoTask
    /\ UNCHANGED <<now, run>>
    /\ UNCHANGED <<contextVars, groupVars, modelVars>>
    /\ UNCHANGED <<streamVars, workerVars, turnVars, callVars>>

\* start_session, user_input == "clear": the completed tasks are removed and the
\* conversation is cut back to a fresh system message.
UserClear ==
    /\ pc = "idle"
    /\ SaveTasks(ClearCompleted(tasks), projectStatus)
    /\ messages' = <<SystemMessage>>
    /\ historyFile' = messages'
    /\ UNCHANGED <<now, leaderVars, compressed, groupVars, modelVars>>
    /\ UNCHANGED <<streamVars, workerVars, turnVars, callVars>>

-----------------------------------------------------------------------------
(* LeaderAI: execution groups *)

Occurrences(files, f) == Cardinality({k \in DOMAIN files : files[k] = f})

Repeat(x, n) == [k \in 1..n |-> x]

\* _detect_file_conflicts, line 1305-1312: file_to_tasks[f], the ids of the tasks
\* that list f, in list order, once for every time f is listed.
RECURSIVE FileToTasks(_, _)
FileToTasks(ts, f) ==
    IF ts = <<>> THEN <<>>
    ELSE Repeat(Head(ts).id, Occurrences(Head(ts).files_to_modify, f))
            \o FileToTasks(Tail(ts), f)

\* _detect_file_conflicts: only the files with more than one entry are kept.
DetectFileConflicts(ts) ==
    [f \in {g \in FILES : Len(FileToTasks(ts, g)) > 1} |-> FileToTasks(ts, f)]

\* task_map = {t["id"]: t for t in tasks}: the last task of the list with the id.
TaskMap(ts, id) ==
    ts[CHOOSE i \in DOMAIN ts : ts[i].id = id /\ \A j \in DOMAIN ts : ts[j].id = id => j <= i]

\* GroupDependencies without the edges of the file conflicts.
GroupDependenciesNoConflicts(ts) ==
    [id \in TaskIds(ts) |-> TaskMap(ts, id).dependencies \cap TaskIds(ts)]

\* _get_execution_groups, line 1336-1349: the dependencies inside the list, plus
\* an edge in both directions between any two entries of a conflicting file.
GroupDependencies(ts) ==
    LET conflicts == DetectFileConflicts(ts)
    IN  [id \in TaskIds(ts) |->
            (TaskMap(ts, id).dependencies \cap TaskIds(ts))
            \cup {conflicts[f][j] : <<f, j>> \in
                    {<<g, k>> \in UNION {{g} \X DOMAIN conflicts[g] : g \in DOMAIN conflicts} :
                        \E i \in DOMAIN conflicts[g] : i # k /\ conflicts[g][i] = id}}]

\* The loop with a fallback that takes all the remaining ids as one batch.
RECURSIVE GroupsFromAllRemaining(_, _, _)
GroupsFromAllRemaining(deps, remaining, completed) ==
    IF remaining = {} THEN {<<>>}
    ELSE LET ready == {t \in remaining : deps[t] \subseteq completed}
         IN  IF ready # {}
             THEN {<<ready>> \o g :
                     g \in GroupsFromAllRemaining(deps, remaining \ ready, completed \cup ready)}
             ELSE {<<remaining>>}

\* _get_execution_groups, line 1356-1371: every sequence of batches the loop can
\* produce.  A batch is the set of all ready ids; when none is ready the loop takes
\* next(iter(remaining)), whichever id the set's iteration yields first.
RECURSIVE GroupsFrom(_, _, _)
GroupsFrom(deps, remaining, completed) ==
    IF remaining = {} THEN {<<>>}
    ELSE LET ready == {t \in remaining : deps[t] \subseteq completed}
         IN  IF ready # {}
             THEN {<<ready>> \o g : g \in GroupsFrom(deps, remaining \ ready, completed \cup ready)}
             ELSE UNION {{<<{t}>> \o g :
                            g \in GroupsFrom(deps, remaining \ {t}, completed \cup {t})} :
                         t \in remaining}

\* _get_execution_groups
GetExecutionGroups(ts) ==
    IF ts = <<>> THEN {<<>>}
    ELSE GroupsFrom(GroupDependencies(ts), TaskIds(ts), {})

NoGroups == [returned |-> FALSE]

\* Task lists for _get_execution_groups: up to MaxGroupTasks tasks with the ids
\* 1, 2, ..., any of GroupDepChoices and GroupFileLists each, and such a list with
\* its first task named a second time.
GroupDepChoices == {{}, {<<0, 1>>}, {<<0, 2>>}}

GroupFileLists == {<<>>, <<"a.py">>, <<"b.py">>, <<"a.py", "b.py">>}

GroupInputs ==
    LET shapes == GroupDepChoices \X GroupFileLists
        lists == UNION {[1..n -> shapes] : n \in 0..MaxGroupTasks}
        base == {[k \in DOMAIN l |->
                    [id |-> <<0, k>>, status |-> "pending", dependencies |-> l[k][1],
                     files_to_modify |-> l[k][2], priority |-> DefaultPriority, notes |-> 0]] :
                 l \in lists}
    IN  base \cup {l \o <<l[1]>> : l \in base \ {<<>>}}

\* execution_groups = self._get_execution_groups(tasks)
GetExecutionGroupsCall ==
    /\ executionGroups = NoGroups
    /\ \E g \in GetExecutionGroups(groupTasks) :
          executionGroups' = [returned |-> TRUE, batches |-> g]
    /\ UNCHANGED <<storeVars, leaderVars, contextVars, groupTasks, modelVars>>
    /\ UNCHANGED <<streamVars, workerVars, turnVars, callVars>>

-----------------------------------------------------------------------------
(* LeaderAI: context compaction *)

\* _manage_context(max_messages=50) and its call _summarize_old_messages(keep_recent=15)
MaxMessages == 50

KeepRecent == 15

\* summary_parts[-20:]
MaxSummaryParts == 20

\* The first n elements with n counted from the end dropped: ms[:-n] for n > 0.
AllButLast(ms, n) == SubSeq(ms, 1, IF Len(ms) > n THEN Len(ms) - n ELSE 0)

\* other_messages[-keep_recent:] read as other_messages[:keep_recent].
FirstMessages(ms, n) == SubSeq(ms, 1, IF Len(ms) > n THEN n ELSE Len(ms))

\* ms[-n:] for n > 0: the last n elements, all of them when there are fewer.
LastMessages(ms, n) == SubSeq(ms, IF Len(ms) > n THEN Len(ms) - n + 1 ELSE 1, Len(ms))

\* line 846-860: the line of the summary a message gives, <<>> when it gives none.
SummaryPart(m) ==
    IF m.role = "user" THEN <<[of |-> "user", content |-> m.content]>>
    ELSE IF m.role = "assistant"
         THEN IF m.tool_calls THEN <<[of |-> "assistant_tools", content |-> 0]>>
              ELSE IF m.content # 0 THEN <<[of |-> "assistant", content |-> m.content]>>
              ELSE <<>>
    ELSE IF m.role = "tool" THEN <<[of |-> "tool", content |-> m.content]>>
    ELSE <<>>

RECURSIVE SummaryParts(_)
SummaryParts(ms) ==
    IF ms = <<>> THEN <<>> ELSE SummaryParts(AllButLast(ms, 1)) \o SummaryPart(ms[Len(ms)])

\* summary_msg: a user message whose content is the summary text.
SummaryMessage(old) ==
    [role |-> "user", summary |-> LastMessages(SummaryParts(old), MaxSummaryParts)]

\* line 833-838: system_msg is the last message with role system, if there is one.
LastSystemMessage(ms) ==
    LET at == {k \in DOMAIN ms : ms[k].role = "system"}
    IN  IF at = {} THEN <<>> ELSE <<ms[CHOOSE k \in at : \A l \in at : l <= k]>>

\* _summarize_old_messages
SummarizeOldMessages(ms, keep) ==
    IF Len(ms) <= keep + 2 THEN ms
    ELSE LET other == SelectSeq(ms, LAMBDA m : m.role # "system")
             recent == LastMessages(other, keep)
             old == AllButLast(other, keep)
         IN  IF old = <<>> THEN ms
             ELSE LastSystemMessage(ms) \o <<SummaryMessage(old)>> \o recent

\* _manage_context
ManageContext ==
    /\ compressed = "none"
    /\ IF Len(messages) <= MaxMessages
       THEN compressed' = "False" /\ UNCHANGED <<messages, historyFile>>
       ELSE /\ messages' = SummarizeOldMessages(messages, KeepRecent)
            /\ historyFile' = messages'
            /\ compressed' = "True"
    /\ UNCHANGED <<storeVars, leaderVars, groupVars, modelVars>>
    /\ UNCHANGED <<streamVars, workerVars, turnVars, callVars>>

\* What a message after the system message may be.
MessageShapes ==
    {<<"user", FALSE>>, <<"assistant", FALSE>>, <<"assistant", TRUE>>, <<"tool", FALSE>>}

\* Histories as the Leader builds them: the system message first, then messages
\* whose shapes repeat with period 3, each with a content of its own (the message
\* at position k carries content k; an assistant message with tool calls carries
\* none), of a length up to HistorySpread off MaxMessages.
Histories ==
    {[k \in 1..n |->
        IF k = 1 THEN SystemMessage
        ELSE Message(p[(k % 3) + 1][1], IF p[(k % 3) + 1][2] THEN 0 ELSE k, p[(k % 3) + 1][2])] :
     n \in (MaxMessages - HistorySpread)..(MaxMessages + HistorySpread),
     p \in [1..3 -> MessageShapes]}

-----------------------------------------------------------------------------
(* LeaderAI: assign_tasks_parallel *)

NoRun == [state |-> "none"]

\* max_concurrent values a tool call may carry (args.get("max_concurrent", 3)).
DefaultMaxConcurrent == 3

Concurrency == {-1, 0, 1, DefaultMaxConcurrent}

RECURSIVE SetToSeq(_)
SetToSeq(S) ==
    IF S = {} THEN <<>>
    ELSE LET x == CHOOSE y \in S : TRUE IN <<x>> \o SetToSeq(S \ {x})

\* task_ids lists a tool call may carry: every id of the store and one that is
\* not there, or one id of the store twice.
Requests(ts) ==
    {SetToSeq(TaskIds(ts)) \o <<UnknownId>>} \cup {<<id, id>> : id \in TaskIds(ts)}

\* _assign_tasks_parallel_smart, line 1523-1537: the requested ids that are kept.
IsValidRequest(ts, id) ==
    /\ GetTask(ts, id) # 0
    /\ ts[GetTask(ts, id)].status = "pending"
    /\ \A d \in ts[GetTask(ts, id)].dependencies : TaskStatusMap(ts, d) = "completed"

ValidTasks(ts, request) ==
    LET kept == SelectSeq(request, LAMBDA id : IsValidRequest(ts, id))
    IN  [k \in DOMAIN kept |-> ts[GetTask(ts, kept[k])]]

\* line 1529-1535: dependency_blocked, the requested ids of pending tasks with a
\* dependency whose status in the store is not completed.
DependencyBlocked(ts, request) ==
    SelectSeq(request, LAMBDA id :
        /\ GetTask(ts, id) # 0
        /\ ts[GetTask(ts, id)].status = "pending"
        /\ ~IsValidRequest(ts, id))

\* _handle_tool_calls_loop, name == "assign_tasks_parallel", and
\* _assign_tasks_parallel_smart up to its batch loop.  asyncio.Semaphore(value)
\* raises ValueError for a negative value; nothing in the Leader catches it.
ToolAssignTasksParallel ==
    /\ pc = "idle"
    /\ \E request \in Requests(tasks), mc \in Concurrency :
          LET valid == ValidTasks(tasks, request)
              blocked == DependencyBlocked(tasks, request)
          IN  IF valid = <<>>
              THEN /\ toolResult' = "no_executable_tasks"
                   /\ UNCHANGED <<pc, run>>
              ELSE \E groups \in GetExecutionGroups(valid) :
                      /\ toolResult' = "none"
                      /\ IF mc < 0
                         THEN /\ pc' = "exited"
                              /\ run' = [state |-> "raised", exc |-> "ValueError",
                                         valid |-> valid,
                                         blocked |-> blocked,
                                         groups |-> groups, batch |-> 1,
                                         maxConcurrent |-> mc, semaphore |-> mc,
                                         co |-> <<>>, results |-> <<>>]
                         ELSE /\ pc' = "run"
                              /\ run' = [state |-> "batches", exc |-> "none",
                                         valid |-> valid,
                                         blocked |-> blocked,
                                         groups |-> groups, batch |-> 1,
                                         maxConcurrent |-> mc, semaphore |-> mc,
                                         co |-> <<>>, results |-> <<>>]
    /\ UNCHANGED <<storeVars, cur>>
    /\ UNCHANGED <<contextVars, groupVars, modelVars>>
    /\ UNCHANGED <<streamVars, workerVars, turnVars, callVars>>

\* line 1594-1609: one pass of the batch loop up to the await of asyncio.gather.
\* A task with a dependency whose result starts with the failure mark is skipped.
BatchBegin ==
    /\ pc = "run"
    /\ run.state = "batches"
    /\ run.batch <= Len(run.groups)
    /\ LET group == run.groups[run.batch]
           skipped == {t \in group :
                         \E d \in TaskMap(run.valid, t).dependencies :
                            d \in DOMAIN run.results /\ run.results[d] = "failed"}
           ready == group \ skipped
           results == [t \in DOMAIN run.results \cup skipped |->
                         IF t \in skipped THEN "skipped" ELSE run.results[t]]
       IN  IF ready = {}
           THEN run' = [run EXCEPT !.batch = @ + 1, !.results = results]
           ELSE run' = [run EXCEPT !.state = "gather", !.results = results,
                                   !.co = [t \in ready |-> "scheduled"]]
    /\ UNCHANGED <<storeVars, pc, cur, toolResult>>
    /\ UNCHANGED <<contextVars, groupVars, modelVars>>
    /\ UNCHANGED <<streamVars, workerVars, turnVars, callVars>>

\* execute_with_semaphore, line 1569-1571: the coroutine takes the semaphore
\* (possible only while its value is positive) and its first statement calls
\* task_log, a name the module neither defines nor imports: NameError.  Leaving
\* the `async with` gives the semaphore back.  Lines 1572-1589 are never reached.
ExecuteWithSemaphore ==
    /\ pc = "run"
    /\ run.state = "gather"
    /\ run.semaphore > 0
    /\ \E t \in DOMAIN run.co :
          /\ run.co[t] = "scheduled"
          /\ run' = [run EXCEPT !.co[t] = "NameError"]
    /\ UNCHANGED <<storeVars, pc, cur, toolResult>>
    /\ UNCHANGED <<contextVars, groupVars, modelVars>>
    /\ UNCHANGED <<streamVars, workerVars, turnVars, callVars>>

\* asyncio.gather without return_exceptions hands the first exception to the
\* awaiting _assign_tasks_parallel_smart, which resumes after the coroutines
\* scheduled before it have run; neither it, _handle_tool_calls_loop,
\* process_user_input nor start_session (except KeyboardInterrupt only) catches it.
GatherRaises ==
    /\ pc = "run"
    /\ run.state = "gather"
    /\ \A t \in DOMAIN run.co : run.co[t] = "NameError"
    /\ run' = [run EXCEPT !.state = "raised", !.exc = "NameError"]
    /\ pc' = "exited"
    /\ UNCHANGED <<storeVars, cur, toolResult>>
    /\ UNCHANGED <<contextVars, groupVars, modelVars>>
    /\ UNCHANGED <<streamVars, workerVars, turnVars, callVars>>

\* Ctrl-C while a Worker or a run is awaited: the Worker's `except Exception`
\* does not catch the cancellation, start_session leaves its loop.
Interrupt ==
    /\ pc \in {"worker", "run"}
    /\ pc' = "exited"
    /\ UNCHANGED <<storeVars, cur, toolResult, run>>
    /\ UNCHANGED <<contextVars, groupVars, modelVars>>
    /\ UNCHANGED <<streamVars, workerVars, turnVars, callVars>>

\* A new process: LeaderAI.__init__ builds a TaskManager, which loads tasks.json.
Restart ==
    /\ pc = "exited"
    /\ tasks' = tasksFile.tasks
    /\ statistics' = tasksFile.statistics
    /\ projectStatus' = tasksFile.status
    /\ pc' = "idle"
    /\ cur' = NoTask
    /\ toolResult' = "none"
    /\ run' = NoRun
    /\ UNCHANGED <<tasksFile, now>>
    /\ UNCHANGED <<contextVars, groupVars, modelVars>>
    /\ UNCHANGED <<streamVars, workerVars, turnVars, callVars>>

\* src/ai.py, line 170-179, the program started to resume (resume_mode): LeaderAI
\* is built, its TaskManager loads tasks.json, and get_tasks_by_status is called,
\* a method TaskManager does not have: AttributeError, the process ends before any
\* status is touched.
ResumeRaises ==
    /\ pc = "exited"
    /\ tasks' = LoadTasks(tasksFile).tasks
    /\ statistics' = LoadTasks(tasksFile).statistics
    /\ projectStatus' = LoadTasks(tasksFile).status
    /\ pc' = "exited"
    /\ cur' = NoTask
    /\ toolResult' = "none"
    /\ run' = NoRun
    /\ UNCHANGED <<tasksFile, now>>
    /\ UNCHANGED <<contextVars, groupVars, modelVars>>
    /\ UNCHANGED <<streamVars, workerVars, turnVars, callVars>>

-----------------------------------------------------------------------------
(* ModelInterface.call_with_messages: reading the stream, line 506-543 *)

\* Strings are sequences of characters; the empty one is what Python takes as false.
ToolCallFragment(index, id, name, arguments) ==
    [index |-> index, id |-> id, name |-> name, arguments |-> arguments]

\* delta.tool_calls entries: the opening fragment of a call carries its id and a
\* piece of the name, the following ones pieces of the name and of the arguments,
\* and a fragment may carry nothing.
Fragments ==
    UNION {{ToolCallFragment(i, <<"call", i>>, <<"f">>, <<>>),
            ToolCallFragment(i, <<>>, <<"g">>, <<"a">>),
            ToolCallFragment(i, <<>>, <<>>, <<"b">>),
            ToolCallFragment(i, <<>>, <<>>, <<>>)} : i \in 0..MaxIndex}

Chunk(choices, content, calls) ==
    [choices |-> choices, content |-> content, tool_calls |-> calls]

\* The chunks of a stream: one without choices, ones with text (plain, or a
\* marker _clean_model_output removes), ones with one tool-call fragment and one
\* that opens two calls at once.
StreamChunks ==
    {Chunk(FALSE, <<>>, <<>>), Chunk(TRUE, <<"x">>, <<>>), Chunk(TRUE, <<"<|m|>">>, <<>>)}
        \cup {Chunk(TRUE, <<>>, <<f>>) : f \in Fragments}
        \cup {Chunk(TRUE, <<>>, <<ToolCallFragment(0, <<"call", 0>>, <<"f">>, <<>>),
                                  ToolCallFragment(MaxIndex, <<"call", MaxIndex>>, <<"g">>, <<>>)>>)}

Streams == UNION {[1..n -> StreamChunks] : n \in 0..MaxChunks}

\* Pieces of a response text beside the plain "x" and the marker "<|m|>": the
\* marker of a tool call written as text, a JSON object whose first member has a
\* string value, a JSON object whose members have number values, a JSON code
\* block with name and arguments, and what the cleaning leaves of such a block
\* ([fence] stands for the three backquotes that open and close a code block).
MarkerText == "functions.f:0"

StringObjectText == "{\"k\": \"v\"}"

NumberObjectText == "{\"n\": 1}"

BlockText == "[fence]json {\"name\": \"f\", \"arguments\": {\"k\": \"v\"}} [fence]"

BrokenBlockText == "[fence]json } [fence]"

\* _clean_model_output, line 194-218: the <|...|> markers are taken out (line
\* 199-212), then every functions.<name>:<idx> (line 214), then every object that
\* begins with a string-valued member, up to its first closing brace (line 215).
CleanModelOutput(content) ==
    LET kept == SelectSeq(content,
                          LAMBDA c : c \notin {"<|m|>", MarkerText, StringObjectText})
    IN  [i \in DOMAIN kept |-> IF kept[i] = BlockText THEN BrokenBlockText ELSE kept[i]]

\* line 228-237, 250-257: the synthetic tool call.
SyntheticCall(id, arguments) ==
    [id |-> <<"tc", id>>, type |-> "function",
     function |-> [name |-> <<"f">>, arguments |-> arguments]]

\* _parse_tool_calls_from_text, line 224-240: every marker with an object right
\* behind it, from left to right.
RECURSIVE ParseMarkers(_)
ParseMarkers(content) ==
    IF Len(content) < 2 THEN <<>>
    ELSE IF content[1] = MarkerText /\ content[2] \in {StringObjectText, NumberObjectText}
         THEN <<SyntheticCall(0, content[2])>> \o ParseMarkers(SubSeq(content, 3, Len(content)))
         ELSE ParseMarkers(Tail(content))

\* line 242-260: every JSON code block with name and arguments, numbered behind
\* the calls found before it.
RECURSIVE ParseBlocks(_, _)
ParseBlocks(content, calls) ==
    IF content = <<>> THEN calls
    ELSE ParseBlocks(Tail(content),
                     IF Head(content) = BlockText
                     THEN Append(calls, SyntheticCall(Len(calls), StringObjectText))
                     ELSE calls)

\* _parse_tool_calls_from_text, line 220-262
ParseToolCallsFromText(content) == ParseBlocks(content, ParseMarkers(content))

\* line 523-527: the entry the while loop appends; every entry it appends for one
\* fragment carries that fragment's index in its id.
EmptyToolCall(index) ==
    [id |-> <<"tc", index>>, type |-> "function",
     function |-> [name |-> <<>>, arguments |-> <<>>]]

\* line 522: while len(tool_calls) <= tc.index
RECURSIVE GrowTo(_, _)
GrowTo(calls, index) ==
    IF Len(calls) <= index THEN GrowTo(Append(calls, EmptyToolCall(index)), index)
    ELSE calls

\* The fragment's pieces replace what the entry holds.
AddFragmentOverwriting(calls, tc) ==
    LET grown == GrowTo(calls, tc.index)
        target == grown[tc.index + 1]
    IN  [grown EXCEPT ![tc.index + 1] =
            [id |-> IF tc.id # <<>> THEN tc.id ELSE target.id,
             type |-> target.type,
             function |->
                [name |-> IF tc.name # <<>> THEN tc.name ELSE target.function.name,
                 arguments |-> IF tc.arguments # <<>> THEN tc.arguments
                               ELSE target.function.arguments]]]

\* line 521-534: one entry of delta.tool_calls.
AddFragment(calls, tc) ==
    LET grown == GrowTo(calls, tc.index)
        target == grown[tc.index + 1]
    IN  [grown EXCEPT ![tc.index + 1] =
            [id |-> IF tc.id # <<>> THEN tc.id ELSE target.id,
             type |-> target.type,
             function |->
                [name |-> IF tc.name # <<>> THEN target.function.name \o tc.name
                          ELSE target.function.name,
                 arguments |-> IF tc.arguments # <<>>
                               THEN target.function.arguments \o tc.arguments
                               ELSE target.function.arguments]]]

\* line 520-521: for tc in delta.tool_calls
RECURSIVE AddFragments(_, _)
AddFragments(calls, fragments) ==
    IF fragments = <<>> THEN calls
    ELSE AddFragments(AddFragment(calls, Head(fragments)), Tail(fragments))

\* line 507-534: the loop over the chunks, from what it has built so far.
RECURSIVE ReadChunks(_, _)
ReadChunks(built, cs) ==
    IF cs = <<>> THEN built
    ELSE LET chunk == Head(cs)
         IN  IF ~chunk.choices THEN ReadChunks(built, Tail(cs))
             ELSE ReadChunks([content |-> built.content \o chunk.content,
                              tool_calls |-> AddFragments(built.tool_calls, chunk.tool_calls)],
                             Tail(cs))

NotStreamed == [done |-> FALSE, content |-> <<>>, tool_calls |-> <<>>]

\* The stream branch of one attempt: full_content = "", tool_calls = [], the loop,
\* and the return of the cleaned text with the list as the loop left it.
ReadStream ==
    /\ ~streamed.done
    /\ LET built == ReadChunks([content |-> <<>>, tool_calls |-> <<>>], chunks)
       IN  streamed' = [done |-> TRUE, content |-> CleanModelOutput(built.content),
                        tool_calls |-> built.tool_calls]
    /\ UNCHANGED <<storeVars, leaderVars, contextVars, groupVars, modelVars, chunks>>
    /\ UNCHANGED <<workerVars, turnVars, callVars>>

-----------------------------------------------------------------------------
(* MCPToolManager.call, src/tools/plugin.py line 317-340 *)

\* A tool name is the pair <<server, tool>> for "server__tool" and <<name>> for a
\* name without "__".
ToolNames ==
    {<<"fs", "read">>, <<"fs", "raise">>, <<"fs", "slow">>, <<"gone", "read">>,
     <<"report_error_to_leader">>, <<"search">>}

\* self.server_params: the servers the manager has parameters for.
ServerParams == {"fs"}

\* What awaiting the session of the server does for the tool: it returns the
\* content, raises, or does not come back within the 30 seconds.
SessionCallTool(tool) ==
    CASE tool = "raise" -> "raises"
      [] tool = "slow" -> "timeout"
      [] OTHER -> "returns"

CallResult(raised, text) == [raised |-> raised, text |-> text]

\* The call without its `except Exception`: what the session raises gets out.
MCPCallUnguarded(fullName) ==
    IF Len(fullName) # 2 THEN CallResult(FALSE, "invalid tool name")
    ELSE IF fullName[1] \notin ServerParams THEN CallResult(FALSE, "server not found")
    ELSE IF SessionCallTool(fullName[2]) = "returns" THEN CallResult(FALSE, "content")
    ELSE CallResult(TRUE, SessionCallTool(fullName[2]))

\* call: every Exception of the session, asyncio's TimeoutError included, is
\* caught and returned as the text "调用失败: ...".
MCPCall(fullName) ==
    IF Len(fullName) # 2 THEN CallResult(FALSE, "invalid tool name")
    ELSE IF fullName[1] \notin ServerParams THEN CallResult(FALSE, "server not found")
    ELSE IF SessionCallTool(fullName[2]) = "returns" THEN CallResult(FALSE, "content")
    ELSE CallResult(FALSE, "call failed")

-----------------------------------------------------------------------------
(* WorkerAI, line 1685-1849 *)

max_iterations == 20

max_message_count == 50

\* Python's None in a place that otherwise holds a text.
None == <<"None">>

\* "任务完成", the result of a Worker whose model ended with no text.
TaskDone == <<"task done">>

\* "超过最大迭代次数"
IterationCapExceeded == <<"iteration cap exceeded">>

NoReturn == [returned |-> FALSE]

WorkerReturn(success, result) == [returned |-> TRUE, success |-> success, result |-> result]

\* The arguments texts a tool call may carry: a JSON object; the same object
\* written with single quotes; a text that is no JSON in either reading; and
\* JSON that is no object.
ObjectText == "{\"error\": \"x\"}"

QuotedText == "{'error': 'x'}"

GarbageText == "garbage"

NullText == "null"

ArgumentTexts == {ObjectText, QuotedText, GarbageText, NullText}

\* json.loads on those texts: the value, or JSONDecodeError.
JsonLoads(text) ==
    CASE text = ObjectText -> [raised |-> FALSE, type |-> "object", members |-> [error |-> "x"]]
      [] text = NullText -> [raised |-> FALSE, type |-> "null", members |-> <<>>]
      [] OTHER -> [raised |-> TRUE]

\* args = {}
EmptyObject == [raised |-> FALSE, type |-> "object", members |-> <<>>]

\* line 1031-1034 and 1822-1825: try: args = json.loads(...) except: args = {}
ParseArguments(text) == IF JsonLoads(text).raised THEN EmptyObject ELSE JsonLoads(text)

\* args.get(key, default) raises AttributeError on a value that is no dict.
GetRaises(args) == args.type # "object"

ToolCallWith(k, name, arguments) == [id |-> <<"call", k>>, name |-> name, arguments |-> arguments]

ToolCall(k, name) == ToolCallWith(k, name, ObjectText)

\* A model that never asks for a tool.
NoToolsScript == [content |-> <<>>, tool_calls |-> <<>>]

\* The responses with tool calls a model may give: one to MaxToolCalls calls, with
\* or without text beside them.
WorkerScripts ==
    {[content |-> c, tool_calls |-> [k \in DOMAIN names |-> ToolCall(k, names[k])]] :
        c \in {<<>>, <<"content">>},
        names \in UNION {[1..n -> ToolNames] : n \in 1..MaxToolCalls}}

\* Responses whose first call carries any of the arguments texts, to the built-in
\* tool or to a tool of a server, and whose second call is a plain one.
ArgumentScripts ==
    {[content |-> <<>>,
      tool_calls |-> <<ToolCallWith(1, name, text), ToolCall(2, <<"fs", "read">>)>>] :
        name \in {<<"report_error_to_leader">>, <<"fs", "read">>}, text \in ArgumentTexts}

\* What call_with_messages may return to the Worker: the response of the script,
\* a text or an empty text without tool calls, or the error text of a failed call.
ModelResponses(s) ==
    (IF s.tool_calls = <<>> THEN {}
     ELSE {[kind |-> "response", text |-> s.content, tool_calls |-> s.tool_calls]})
        \cup {[kind |-> "response", text |-> <<"content">>, tool_calls |-> <<>>],
              [kind |-> "response", text |-> <<>>, tool_calls |-> <<>>],
              CallFailed(<<"Incorrect", "API", "key">>)}

\* line 1763-1766: the messages execute builds.
WorkerPrompt ==
    <<[role |-> "system", content |-> <<"worker prompt">>],
      [role |-> "user", content |-> <<"task">>]>>

\* line 1793-1798
AssistantMessage(response) ==
    [role |-> "assistant",
     content |-> IF response.text # <<>> THEN response.text ELSE None,
     tool_calls |-> response.tool_calls]

\* A tool message that names the first call of the response whatever the call.
ToolMessageFirstId(tc, result) ==
    [role |-> "tool", tool_call_id |-> <<"call", 1>>, name |-> tc.name, content |-> result]

\* line 1808-1813
ToolMessage(tc, result) ==
    [role |-> "tool", tool_call_id |-> tc.id, name |-> tc.name, content |-> result]

\* The cut that keeps the system message and the KeepRecent last messages.
TruncateToRecent(ms) ==
    IF Len(ms) > max_message_count
    THEN (IF ms[1].role = "system" THEN <<ms[1]>> ELSE <<>>)
            \o SubSeq(ms, Len(ms) - KeepRecent + 1, Len(ms))
    ELSE ms

\* line 1784-1788: a history of more than max_message_count messages is cut to
\* its system message and its last max_message_count - 1 messages.
Truncate(ms) ==
    IF Len(ms) > max_message_count
    THEN (IF ms[1].role = "system" THEN <<ms[1]>> ELSE <<>>)
            \o SubSeq(ms, Len(ms) - (max_message_count - 1) + 1, Len(ms))
    ELSE ms

\* The loop goes round once more at the cap.
LoopContinuesAtCap(i) == i <= max_iterations

\* line 1780: while iteration < max_iterations
LoopContinues(i) == i < max_iterations

\* line 1802: return True, response or "任务完成"
LoopReturn(response) ==
    WorkerReturn(TRUE, IF response.text # <<>> THEN response.text ELSE TaskDone)

\* _handle_tool_call, line 1819-1839: what the call gives back, as MCPCall does.
\* The arguments go to the tool manager as they were parsed; the built-in tool
\* reads them with args.get and reports the error text it finds, "" without one.
HandleToolCall(tc) ==
    IF Len(tc.name) = 2 THEN MCPCall(tc.name)
    ELSE IF tc.name = <<"report_error_to_leader">>
         THEN IF GetRaises(ParseArguments(tc.arguments))
              THEN CallResult(TRUE, "AttributeError")
              ELSE IF "error" \in DOMAIN ParseArguments(tc.arguments).members
                   THEN CallResult(FALSE, "reported")
                   ELSE CallResult(FALSE, "reported no text")
    ELSE CallResult(FALSE, "unknown tool")

\* execute, line 1720-1766, on the Worker _assign_task_to_worker has built: without
\* a tool manager, or when its initialize or get_tools raises, the Worker returns
\* a failure; otherwise the loop is entered with the two messages.
WorkerExecute ==
    /\ pc = "worker"
    /\ wpc = "idle"
    /\ \E mcp \in {"ready", "missing", "raises"} :
          IF mcp = "ready"
          THEN /\ wpc' = "loop"
               /\ iteration' = 0
               /\ workerMessages' = WorkerPrompt
               /\ UNCHANGED workerReturn
          ELSE /\ wpc' = "returned"
               /\ workerReturn' = WorkerReturn(FALSE,
                     IF mcp = "missing" THEN <<"no tool manager">>
                     ELSE <<"execution exception">>)
               /\ UNCHANGED <<iteration, workerMessages>>
    /\ UNCHANGED <<script, toolCalls>>
    /\ UNCHANGED <<storeVars, leaderVars, contextVars, groupVars, modelVars, streamVars>>
    /\ UNCHANGED <<turnVars, callVars>>

\* line 1780-1802: one pass of the loop from its test to the end of the model
\* call: the history is cut, the model called, its response appended, and the
\* loop returns when the response carries no tool calls.
WorkerIterate ==
    /\ pc = "worker"
    /\ wpc = "loop"
    /\ LoopContinues(iteration)
    /\ iteration' = iteration + 1
    /\ \E response \in ModelResponses(script) :
          /\ workerMessages' =
                IF response.text # <<>> \/ response.tool_calls # <<>>
                THEN Append(Truncate(workerMessages), AssistantMessage(response))
                ELSE Truncate(workerMessages)
          /\ callResult' = response
          /\ IF response.tool_calls = <<>>
             THEN /\ wpc' = "returned"
                  /\ workerReturn' = LoopReturn(response)
                  /\ UNCHANGED toolCalls
             ELSE /\ wpc' = "tools"
                  /\ toolCalls' = response.tool_calls
                  /\ UNCHANGED workerReturn
    /\ UNCHANGED script
    /\ UNCHANGED <<client, attempt, outcomes>>
    /\ UNCHANGED <<storeVars, leaderVars, contextVars, groupVars, streamVars>>
    /\ UNCHANGED <<turnVars, callVars>>

\* line 1805-1813: one pass of the loop over the tool calls.  An exception of
\* _handle_tool_call would leave the loop and be turned into a failure by the
\* `except Exception` of execute (line 1770-1772).  report_error_to_leader adds a
\* note to the Worker's task.
WorkerHandleToolCall ==
    /\ pc = "worker"
    /\ wpc = "tools"
    /\ LET tc == Head(toolCalls)
           result == HandleToolCall(tc)
       IN  IF result.raised
           THEN /\ wpc' = "returned"
                /\ workerReturn' = WorkerReturn(FALSE, <<"execution exception">>)
                /\ UNCHANGED <<workerMessages, toolCalls, storeVars>>
           ELSE /\ workerMessages' = Append(workerMessages, ToolMessage(tc, result.text))
                /\ toolCalls' = Tail(toolCalls)
                /\ wpc' = IF Tail(toolCalls) = <<>> THEN "loop" ELSE "tools"
                /\ UNCHANGED workerReturn
                /\ IF tc.name = <<"report_error_to_leader">>
                   THEN SaveTasks(AddNoteTo(tasks, cur), projectStatus) /\ UNCHANGED now
                   ELSE UNCHANGED storeVars
    /\ UNCHANGED <<script, iteration>>
    /\ UNCHANGED <<leaderVars, contextVars, groupVars, modelVars, streamVars>>
    /\ UNCHANGED <<turnVars, callVars>>

\* line 1815: the loop has used up its iterations.
WorkerLoopEnds ==
    /\ pc = "worker"
    /\ wpc = "loop"
    /\ ~LoopContinues(iteration)
    /\ wpc' = "returned"
    /\ workerReturn' = WorkerReturn(FALSE, IterationCapExceeded)
    /\ UNCHANGED <<script, iteration, workerMessages, toolCalls>>
    /\ UNCHANGED <<storeVars, leaderVars, contextVars, groupVars, modelVars, streamVars>>
    /\ UNCHANGED <<turnVars, callVars>>

\* _assign_task_to_worker, line 1481-1488: the Worker's return is written to the
\* task.
AssignTaskRecords ==
    /\ pc = "worker"
    /\ wpc = "returned"
    /\ SaveTasks(SetTaskStatus(tasks, cur,
                               IF workerReturn.success THEN "completed" ELSE "failed"),
                 projectStatus)
    /\ toolResult' = IF workerReturn.success THEN "task_completed" ELSE "task_failed"
    /\ pc' = "idle"
    /\ cur' = NoTask
    /\ UNCHANGED <<now, run>>
    /\ UNCHANGED <<contextVars, groupVars, modelVars, streamVars, workerVars>>
    /\ UNCHANGED <<turnVars, callVars>>

-----------------------------------------------------------------------------
(* LeaderAI: one turn, process_user_input and _handle_tool_calls_loop *)

\* line 762: for t in tasks[:10]
PromptTasks == 10

\* line 1016: max_iterations of _handle_tool_calls_loop
LeaderMaxIterations == 20

\* _build_system_prompt, line 756-766: the text carries status, id and
\* dependencies of the first tasks of the store.
BuildSystemPrompt(ts) ==
    <<"leader prompt",
      [k \in 1..(IF Len(ts) < PromptTasks THEN Len(ts) ELSE PromptTasks) |->
          <<ts[k].status, ts[k].id, ts[k].dependencies>>]>>

\* The new prompt is put in front of whatever the history holds.
InsertSystemMessage(ms, prompt) ==
    <<[role |-> "system", content |-> prompt]>> \o ms

\* line 980-984: the first message is rewritten when it is a system message,
\* a system message is inserted in front otherwise.
UpdateSystemMessage(ms, prompt) ==
    IF ms # <<>> /\ ms[1].role = "system"
    THEN [ms EXCEPT ![1] = [@ EXCEPT !.content = prompt]]
    ELSE <<[role |-> "system", content |-> prompt]>> \o ms

\* Histories _load_history may find in the file: written by earlier turns (the
\* system message of a project without tasks, then user messages and answers in
\* turn), of a length up to HistorySpread below the limit of _manage_context; and
\* one that does not begin with a system message.
LoadedHistories ==
    {[k \in 1..n |->
        IF k = 1 THEN [role |-> "system", content |-> BuildSystemPrompt(<<>>)]
        ELSE IF k % 2 = 0 THEN [role |-> "user", content |-> <<"input">>]
        ELSE [role |-> "assistant", content |-> <<"content">>]] :
     n \in (MaxMessages - HistorySpread)..MaxMessages}
        \cup {[k \in 1..(MaxMessages - 1) |->
                 IF k % 2 = 1 THEN [role |-> "user", content |-> <<"input">>]
                 ELSE [role |-> "assistant", content |-> <<"content">>]]}

\* The tools the Leader's model names in this model of a turn.
LeaderToolNames ==
    {<<"fs", "read">>, <<"fs", "raise">>, <<"fs", "slow">>, <<"create_task">>, <<"search">>}

\* The responses with tool calls the Leader's model may give: one call, with or
\* without text, or a failing call followed by another call.
LeaderScripts ==
    {[content |-> c, tool_calls |-> <<ToolCall(1, name)>>] :
        c \in {<<>>, <<"content">>}, name \in LeaderToolNames}
        \cup {[content |-> <<>>, tool_calls |-> <<ToolCall(1, n1), ToolCall(2, n2)>>] :
                n1 \in {<<"fs", "raise">>, <<"fs", "slow">>},
                n2 \in {<<"fs", "read">>, <<"create_task">>}}

\* The same for the Leader, the first call being create_task or a server's tool.
LeaderArgumentScripts ==
    {[content |-> <<>>,
      tool_calls |-> <<ToolCallWith(1, name, text), ToolCall(2, <<"fs", "read">>)>>] :
        name \in {<<"create_task">>, <<"fs", "read">>}, text \in ArgumentTexts}

\* What call_with_messages may return to the Leader.
LeaderResponses(s) ==
    (IF s.tool_calls = <<>> THEN {}
     ELSE {[kind |-> "response", text |-> s.content, tool_calls |-> s.tool_calls]})
        \cup {[kind |-> "response", text |-> <<"content">>, tool_calls |-> <<>>],
              [kind |-> "response", text |-> <<>>, tool_calls |-> <<>>]}

\* line 994-995, 1151-1152: if response: self.messages.append(assistant)
AppendResponse(ms, response) ==
    IF response.text # <<>>
    THEN Append(ms, [role |-> "assistant", content |-> response.text])
    ELSE ms

\* line 1022-1026: the assistant message of the tool calls, content None.
ToolCallsMessage(calls) == [role |-> "assistant", content |-> None, tool_calls |-> calls]

\* The loop entered once more at the cap.
AfterResponseAtCap(ms, response, done) ==
    IF response.tool_calls # <<>> /\ done <= LeaderMaxIterations
    THEN /\ messages' = Append(AppendResponse(ms, response),
                               ToolCallsMessage(response.tool_calls))
         /\ leaderIteration' = done + 1
         /\ leaderToolCalls' = response.tool_calls
         /\ pc' = "leader_tools"
         /\ UNCHANGED historyFile
    ELSE /\ messages' = AppendResponse(ms, response)
         /\ historyFile' = messages'
         /\ leaderIteration' = done
         /\ leaderToolCalls' = <<>>
         /\ pc' = "idle"

\* What follows a model call of the turn: `while tool_calls and iteration <
\* max_iterations` goes into the loop, or the turn ends with _save_history.
AfterResponse(ms, response, done) ==
    IF response.tool_calls # <<>> /\ done < LeaderMaxIterations
    THEN /\ messages' = Append(AppendResponse(ms, response),
                               ToolCallsMessage(response.tool_calls))
         /\ leaderIteration' = done + 1
         /\ leaderToolCalls' = response.tool_calls
         /\ pc' = "leader_tools"
         /\ UNCHANGED historyFile
    ELSE /\ messages' = AppendResponse(ms, response)
         /\ historyFile' = messages'
         /\ leaderIteration' = done
         /\ leaderToolCalls' = <<>>
         /\ pc' = "idle"

\* process_user_input, line 969-1002: the system message is brought up to date,
\* the user's message appended and the model called with self.messages.  The
\* turns taken are those on a history within HistorySpread of the limit of
\* _manage_context; nothing in a turn looks at the length of the history.
ProcessUserInput ==
    /\ pc = "idle"
    /\ Len(messages) >= MaxMessages - HistorySpread
    /\ Len(messages) < MaxMessages + HistorySpread
    /\ LET asked == Append(UpdateSystemMessage(messages, BuildSystemPrompt(tasks)),
                           [role |-> "user", content |-> <<"input">>])
       IN  /\ sent' = asked
           /\ \E response \in LeaderResponses(leaderScript) :
                 AfterResponse(asked, response, 0)
    /\ UNCHANGED <<storeVars, cur, toolResult, run, compressed, leaderScript>>
    /\ UNCHANGED <<groupVars, modelVars, streamVars, workerVars, callVars>>

\* line 1029-1145: one tool call of the response.  create_task reads the parsed
\* arguments with args.get and goes to the store; a name with "__" goes to the
\* tool manager; any other name is answered as unknown.  An exception of the
\* handling ends the session (only KeyboardInterrupt is caught above).  The
\* result is appended as the tool message.
LeaderHandleToolCall ==
    /\ pc = "leader_tools"
    /\ leaderToolCalls # <<>>
    /\ LET tc == Head(leaderToolCalls)
           result == IF tc.name = <<"create_task">>
                     THEN IF GetRaises(ParseArguments(tc.arguments))
                          THEN CallResult(TRUE, "AttributeError")
                          ELSE CallResult(FALSE, "created")
                     ELSE IF Len(tc.name) = 2 THEN MCPCall(tc.name)
                     ELSE CallResult(FALSE, "unknown tool")
       IN  IF result.raised
           THEN /\ pc' = "exited"
                /\ UNCHANGED <<storeVars, messages, leaderToolCalls>>
           ELSE /\ messages' = Append(messages, ToolMessage(tc, result.text))
                /\ leaderToolCalls' = Tail(leaderToolCalls)
                /\ UNCHANGED pc
                /\ IF tc.name = <<"create_task">>
                   THEN CreateTask({}, <<>>, DefaultPriority)
                   ELSE UNCHANGED storeVars
    /\ UNCHANGED <<cur, toolResult, run, historyFile, compressed>>
    /\ UNCHANGED <<leaderScript, leaderIteration, sent>>
    /\ UNCHANGED <<groupVars, modelVars, streamVars, workerVars, callVars>>

\* line 1147-1152 and the loop test: the next model call of the turn.
LeaderContinue ==
    /\ pc = "leader_tools"
    /\ leaderToolCalls = <<>>
    /\ sent' = messages
    /\ \E response \in LeaderResponses(leaderScript) :
          AfterResponse(messages, response, leaderIteration)
    /\ UNCHANGED <<storeVars, cur, toolResult, run, compressed, leaderScript>>
    /\ UNCHANGED <<groupVars, modelVars, streamVars, workerVars, callVars>>

-----------------------------------------------------------------------------
(* TaskManager.set_task_status with the fields it stamps, line 103-183 *)

MaxRecords == 1     \* tasks of the store whose stamped fields are followed

\* create_task, line 113-118: started_at, completed_at, result_summary and
\* error_log of a new task.
UnsetFields ==
    [started_at |-> None, completed_at |-> None, result_summary |-> None, error_log |-> None]

\* create_task: the task with the fields set_task_status writes.
NewTaskRecord(ts, clock) == NewTask(ts, clock, {}, <<>>, DefaultPriority) @@ UnsetFields

\* datetime.now().isoformat(): the text of the clock's reading.
IsoFormat(clock) == <<"iso", clock>>

\* What Python takes as true of a text: neither None nor the empty string.
Truthy(text) == text # None /\ text # <<>>

\* The updates of a call that stamps nothing.
StatusUpdatesNoStamps(status, result, error, clock) ==
    [status |-> status]
        @@ (IF status = "completed" /\ Truthy(result) THEN [result_summary |-> result]
            ELSE IF status = "failed" /\ Truthy(error) THEN [error_log |-> error]
            ELSE <<>>)

\* set_task_status, line 170-181: the updates it hands to update_task.
StatusUpdates(status, result, error, clock) ==
    [status |-> status]
        @@ (IF status = "in_progress" THEN [started_at |-> IsoFormat(clock)]
            ELSE IF status = "completed"
                 THEN [completed_at |-> IsoFormat(clock)]
                        @@ (IF Truthy(result) THEN [result_summary |-> result] ELSE <<>>)
            ELSE IF status = "failed"
                 THEN [completed_at |-> IsoFormat(clock)]
                        @@ (IF Truthy(error) THEN [error_log |-> error] ELSE <<>>)
            ELSE <<>>)

\* update_task, line 150-152: the keys the task has are set.
UpdateTask(ts, id, updates) ==
    IF GetTask(ts, id) = 0 THEN ts
    ELSE [ts EXCEPT ![GetTask(ts, id)] =
            [f \in DOMAIN @ |-> IF f \in DOMAIN updates THEN updates[f] ELSE @[f]]]

NotCalled == [called |-> FALSE]

\* result and error as a caller may give them: left out, empty, or a text.
GivenTexts ==
    {[result |-> None, error |-> None], [result |-> <<>>, error |-> <<>>],
     [result |-> <<"result">>, error |-> <<"error">>]}

\* create_task on a store that keeps the stamped fields.
CreateTaskRecord ==
    /\ pc = "idle"
    /\ Len(tasks) < MaxRecords
    /\ SaveTasks(Append(tasks, NewTaskRecord(tasks, now)), projectStatus)
    /\ UNCHANGED <<now, leaderVars, callVars>>
    /\ UNCHANGED <<contextVars, groupVars, modelVars>>
    /\ UNCHANGED <<streamVars, workerVars, turnVars>>

\* set_task_status(task_id, status, result, error) and the update_task it calls.
SetTaskStatusCall ==
    /\ pc = "idle"
    /\ \E id \in TaskIds(tasks) \cup {UnknownId}, status \in Statuses, given \in GivenTexts :
          /\ storeCall' = [called |-> TRUE, task_id |-> id, status |-> status,
                           result |-> given.result, error |-> given.error,
                           returned |-> GetTask(tasks, id) # 0]
          /\ IF GetTask(tasks, id) = 0
             THEN UNCHANGED storeVars
             ELSE /\ SaveTasks(UpdateTask(tasks, id,
                                          StatusUpdates(status, given.result, given.error, now)),
                               projectStatus)
                  /\ UNCHANGED now
    /\ UNCHANGED <<leaderVars, mcpPermissions, permission, provided>>
    /\ UNCHANGED <<contextVars, groupVars, modelVars>>
    /\ UNCHANGED <<streamVars, workerVars, turnVars>>

-----------------------------------------------------------------------------
(* LeaderAI: MCP permissions, line 595-701 *)

\* line 595-599
NoPermissions == [allowed_plugins |-> {}, session_allowed |-> {}, denied_tools |-> {}]

NotAsked == [called |-> "none"]

\* Tool names the permission functions are asked about: tools of two plugins and
\* a built-in tool, whose name holds no "__".
PermissionTools == {<<"fs", "read">>, <<"fs", "write">>, <<"git", "log">>, <<"create_task">>}

\* What the user types at the prompt of _request_mcp_permission: one of the four
\* options (any other text is asked again), or the end of the input.
Choices == {"1", "2", "3", "4", "EOF"}

\* tool_name.split("__")[0]
PluginName(tool) == tool[1]

\* _check_mcp_permission, line 612-641
CheckMcpPermission(perms, tool) ==
    IF Len(tool) # 2 THEN 1
    ELSE IF tool \in perms.denied_tools THEN 0
    ELSE IF PluginName(tool) \in perms.allowed_plugins THEN 2
    ELSE IF PluginName(tool) \in perms.session_allowed THEN 3
    ELSE -1

\* _request_mcp_permission, line 683-701: what the choice returns.
RequestReturns(choice) ==
    CASE choice = "1" -> 0
      [] choice = "2" -> 1
      [] choice = "3" -> 2
      [] choice = "4" -> 3
      [] OTHER -> 0

\* _request_mcp_permission, line 689-696: what the choice leaves in the sets.
RequestPermissions(perms, tool, choice) ==
    CASE choice = "3" /\ Len(tool) = 2 ->
            [perms EXCEPT !.allowed_plugins = @ \cup {PluginName(tool)}]
      [] choice = "4" -> [perms EXCEPT !.session_allowed = @ \cup {"__all__"}]
      [] OTHER -> perms

CheckMcpPermissionCall ==
    /\ \E tool \in PermissionTools :
          permission' = [called |-> "check", tool |-> tool, choice |-> "none",
                         returned |-> CheckMcpPermission(mcpPermissions, tool)]
    /\ UNCHANGED <<mcpPermissions, storeCall, provided>>
    /\ UNCHANGED <<storeVars, leaderVars, contextVars, groupVars, modelVars>>
    /\ UNCHANGED <<streamVars, workerVars, turnVars>>

RequestMcpPermissionCall ==
    /\ \E tool \in PermissionTools, choice \in Choices :
          /\ mcpPermissions' = RequestPermissions(mcpPermissions, tool, choice)
          /\ permission' = [called |-> "request", tool |-> tool, choice |-> choice,
                            returned |-> RequestReturns(choice)]
    /\ UNCHANGED <<storeCall, provided>>
    /\ UNCHANGED <<storeVars, leaderVars, contextVars, groupVars, modelVars>>
    /\ UNCHANGED <<streamVars, workerVars, turnVars>>

-----------------------------------------------------------------------------
(* ModelInterface.call_async: what it returns for a response, line 294-359 *)

MaxPieces == 3      \* pieces of the text of a response

NotProvided == [given |-> FALSE]

\* The texts a response may carry.
ResponseTexts ==
    UNION {[1..n -> {"x", "<|m|>", MarkerText, StringObjectText, NumberObjectText,
                     BlockText}] : n \in 0..MaxPieces}

\* What call_async works on: the text and the structured tool calls of the
\* response, and whether the caller passed tools.
Provided ==
    {[given |-> TRUE, content |-> text, tool_calls |-> calls, tools |-> tools] :
        text \in ResponseTexts, calls \in {<<>>, <<"call_1">>}, tools \in BOOLEAN}

\* line 328-336 (stream) and 341-358 (no stream): the text is cleaned, and when
\* the response carried no tool call and tools were passed, the cleaned text is
\* scanned for tool calls written as text.
CallAsyncReturns ==
    /\ provided # NotProvided
    /\ callResult = NoResult
    /\ LET content == CleanModelOutput(provided.content)
       IN  callResult' =
              [kind |-> "response", text |-> content,
               tool_calls |-> IF provided.tool_calls = <<>> /\ provided.tools
                              THEN ParseToolCallsFromText(content)
                              ELSE provided.tool_calls]
    /\ outcomes' = Append(outcomes, [raised |-> FALSE])
    /\ UNCHANGED <<client, attempt>>
    /\ UNCHANGED <<storeVars, leaderVars, contextVars, groupVars>>
    /\ UNCHANGED <<streamVars, workerVars, turnVars, callVars>>

-----------------------------------------------------------------------------
(* Specifications *)

vars == <<storeVars, leaderVars, contextVars, groupVars, modelVars, streamVars,
          workerVars, turnVars, callVars>>

\* A fresh project: empty tasks.json, a Leader at its prompt.  The operations of
\* one behaviour fall into one second of the clock, the case in which the ids
\* create_task builds differ by the length of the list alone.
InitTasks ==
    /\ tasks = <<>>
    /\ statistics = EmptyStatistics
    /\ projectStatus = "idle"
    /\ tasksFile = [tasks |-> <<>>, statistics |-> EmptyStatistics, status |-> "idle"]
    /\ now = 0
    /\ pc = "idle"
    /\ cur = NoTask
    /\ toolResult = "none"
    /\ run = NoRun

\* LeaderAI.__init__ with no history file: _load_history gives the system message.
InitContext ==
    /\ messages = <<SystemMessage>>
    /\ historyFile = <<>>
    /\ compressed = "none"

InitSession == InitTasks /\ InitContext

\* Nothing has been handed to _get_execution_groups.
InitGroups == groupTasks = <<>> /\ executionGroups = NoGroups

\* A ModelInterface with a client and no call made.
InitModel == client = TRUE /\ attempt = 0 /\ outcomes = <<>> /\ callResult = NoResult

\* No stream has been read.
InitStream == chunks = <<>> /\ streamed = NotStreamed

\* No Worker has been built.
InitWorker ==
    /\ script = NoToolsScript
    /\ wpc = "idle"
    /\ iteration = 0
    /\ workerMessages = <<>>
    /\ toolCalls = <<>>
    /\ workerReturn = NoReturn

\* The Leader has made no model call.
InitTurn ==
    /\ leaderScript = NoToolsScript
    /\ leaderIteration = 0
    /\ leaderToolCalls = <<>>
    /\ sent = <<>>

\* No call of set_task_status has been followed; line 595-599: the permission
\* sets of a new Leader are empty.
InitCalls ==
    /\ storeCall = NotCalled
    /\ mcpPermissions = NoPermissions
    /\ permission = NotAsked

\* The same, and call_async has not been given a response.
InitCall == InitCalls /\ provided = NotProvided

Init ==
    /\ InitSession /\ InitGroups /\ InitModel /\ InitStream /\ InitWorker /\ InitTurn
    /\ InitCall

\* A Leader session: the task-management tool calls and the prompt's commands.
Next ==
    \/ ToolCreateTask
    \/ ToolAssignTask
    \/ WorkerReturns
    \/ ToolAssignTasksParallel
    \/ BatchBegin
    \/ ExecuteWithSemaphore
    \/ GatherRaises
    \/ UserClear
    \/ Interrupt
    \/ Restart

Spec == Init /\ [][Next]_vars

\* The TaskManager used directly: every operation that writes the document.
NextStore ==
    \/ StoreCreateTask
    \/ StoreSetTaskStatus
    \/ StoreUpdateTask
    \/ StoreAddNote
    \/ ClearCompletedTasks
    \/ ResetAllTasks
    \/ SetProjectStatus

SpecStore == Init /\ [][NextStore]_vars

\* Every writer of a task's status: the TaskManager's operations and the Leader's
\* assignment paths.
NextStatus ==
    \/ ToolCreateTask
    \/ StoreSetTaskStatus
    \/ ResetAllTasks
    \/ ClearCompletedTasks
    \/ ToolAssignTask
    \/ WorkerReturns
    \/ ToolAssignTasksParallel
    \/ BatchBegin
    \/ ExecuteWithSemaphore
    \/ GatherRaises
    \/ Restart

SpecStatus == Init /\ [][NextStatus]_vars

\* _get_execution_groups applied to one task list.
InitExecutionGroups ==
    /\ InitSession
    /\ InitModel
    /\ InitStream
    /\ InitWorker
    /\ InitTurn
    /\ InitCall
    /\ groupTasks \in GroupInputs
    /\ executionGroups = NoGroups

SpecGroups == InitExecutionGroups /\ [][GetExecutionGroupsCall]_vars

\* One call of ModelInterface.call / call_with_messages.
InitModelCall ==
    /\ InitSession
    /\ InitGroups
    /\ InitStream
    /\ InitWorker
    /\ InitTurn
    /\ InitCall
    /\ client \in BOOLEAN
    /\ attempt = 0
    /\ outcomes = <<>>
    /\ callResult = NoResult

NextModelCall == CallWithoutClient \/ ClientReturns \/ ClientRaises

SpecModelCall == InitModelCall /\ [][NextModelCall]_vars

\* _manage_context applied to one history.
InitManageContext ==
    /\ InitTasks
    /\ InitGroups
    /\ InitModel
    /\ InitStream
    /\ InitWorker
    /\ InitTurn
    /\ InitCall
    /\ messages \in Histories
    /\ historyFile = messages
    /\ compressed = "none"

SpecContext == InitManageContext /\ [][ManageContext]_vars

\* The stream loop applied to one stream.
InitReadStream ==
    /\ InitSession
    /\ InitGroups
    /\ InitModel
    /\ chunks \in Streams
    /\ streamed = NotStreamed
    /\ InitWorker
    /\ InitTurn
    /\ InitCall

SpecStream == InitReadStream /\ [][ReadStream]_vars

\* One task handed to a Worker by assign_task: the state _assign_task_to_worker
\* has reached when it awaits worker.execute(), with the model the Worker talks to.
InitAssignedWith(scripts) ==
    /\ LET ts == SetTaskStatus(<<NewTask(<<>>, 0, {}, <<>>, DefaultPriority)>>,
                               NewTaskId(<<>>, 0), "in_progress")
       IN  /\ tasks = ts
           /\ statistics = UpdateStatistics(ts)
           /\ tasksFile = [tasks |-> ts, statistics |-> UpdateStatistics(ts),
                           status |-> "idle"]
           /\ cur = ts[1].id
    /\ projectStatus = "idle"
    /\ now = 0
    /\ pc = "worker"
    /\ toolResult = "none"
    /\ run = NoRun
    /\ InitContext
    /\ InitGroups
    /\ InitModel
    /\ InitStream
    /\ script \in scripts
    /\ wpc = "idle"
    /\ iteration = 0
    /\ workerMessages = <<>>
    /\ toolCalls = <<>>
    /\ workerReturn = NoReturn
    /\ InitTurn
    /\ InitCall

InitAssigned == InitAssignedWith(WorkerScripts)

NextWorker ==
    \/ WorkerExecute
    \/ WorkerIterate
    \/ WorkerHandleToolCall
    \/ WorkerLoopEnds
    \/ AssignTaskRecords

SpecWorker == InitAssigned /\ [][NextWorker]_vars

\* A session that has loaded its history, with the model the Leader talks to.
InitLoadedWith(scripts) ==
    /\ InitTasks
    /\ messages \in LoadedHistories
    /\ historyFile = messages
    /\ compressed = "none"
    /\ InitGroups
    /\ InitModel
    /\ InitStream
    /\ InitWorker
    /\ leaderScript \in scripts
    /\ leaderIteration = 0
    /\ leaderToolCalls = <<>>
    /\ sent = <<>>
    /\ InitCall

InitLoaded == InitLoadedWith(LeaderScripts)

NextTurn == ProcessUserInput \/ LeaderHandleToolCall \/ LeaderContinue

SpecTurn == InitLoaded /\ [][NextTurn]_vars

\* The two loops that handle tool calls: a Worker at its task, or the Leader in
\* a turn.
InitToolCalls == InitAssigned \/ InitLoaded

NextToolCalls == NextWorker \/ NextTurn

SpecToolCalls == InitToolCalls /\ [][NextToolCalls]_vars

\* The two loops with tool calls whose arguments are any of the arguments texts.
InitArguments ==
    \/ InitAssignedWith(ArgumentScripts)
    \/ InitLoadedWith(LeaderArgumentScripts)

SpecArguments == InitArguments /\ [][NextToolCalls]_vars

\* Every await of the Worker comes back: the model call ends after its retries,
\* a tool call after its 30 seconds at the latest.
SpecWorkerFair == SpecWorker /\ WF_vars(NextWorker)

\* A Leader session with the program's two ways of being started again.
NextResume == Next \/ ResumeRaises

\* Every await of the session comes back, and a program that has ended is
\* started again.
SpecResume == Init /\ [][NextResume]_vars /\ WF_vars(NextResume)

\* The TaskManager used directly, through create_task and set_task_status.
NextSetStatus == CreateTaskRecord \/ SetTaskStatusCall

SpecSetStatus == Init /\ [][NextSetStatus]_vars

\* The permission functions of the Leader called in any order.
NextPermission == CheckMcpPermissionCall \/ RequestMcpPermissionCall

SpecPermission == Init /\ [][NextPermission]_vars

\* One call of call_async on one response of the provider.
InitCallAsync ==
    /\ InitSession
    /\ InitGroups
    /\ InitModel
    /\ InitStream
    /\ InitWorker
    /\ InitTurn
    /\ InitCalls
    /\ provided \in Provided

SpecCallAsync == InitCallAsync /\ [][CallAsyncReturns]_vars

-----------------------------------------------------------------------------
(* Properties *)

\* The dependency named d is the id of a completed task of the store.
NamesCompleted(ts, d) == \E j \in DOMAIN ts : ts[j].id = d /\ ts[j].status = "completed"

DependenciesCompleted(ts, i) == \A d \in ts[i].dependencies : NamesCompleted(ts, d)

\* A step in which the task at position i is handed to a Worker: its status
\* becomes in_progress, or the serial Worker starts on it.
WorkerStarted(i) ==
    /\ Len(tasks') >= Len(tasks)
    /\ \/ tasks[i].status # "in_progress" /\ tasks'[i].status = "in_progress"
       \/ pc = "idle" /\ pc' = "worker" /\ GetTask(tasks, cur') = i

\* C1: a Worker is started for a task only at a moment when every id in the
\* task's dependencies names a completed task of the store; an assign_task on a
\* pending task with an unmet dependency starts nothing and is answered with the
\* unmet-dependencies error.
C1_DependencyGate ==
    [][ /\ \A i \in DOMAIN tasks : WorkerStarted(i) => DependenciesCompleted(tasks, i)
        /\ toolResult' = "unmet_dependencies" /\ toolResult # "unmet_dependencies"
              => /\ UNCHANGED <<tasks, pc>>
                 /\ \E i \in DOMAIN tasks :
                       tasks[i].status = "pending" /\ ~DependenciesCompleted(tasks, i)
      ]_vars

\* A Worker runs a task that has dependencies (all of them completed).
C1_Witness ==
    /\ pc = "worker"
    /\ GetTask(tasks, cur) # 0
    /\ tasks[GetTask(tasks, cur)].status = "in_progress"
    /\ tasks[GetTask(tasks, cur)].dependencies # {}
    /\ DependenciesCompleted(tasks, GetTask(tasks, cur))

StatusOrder ==
    {<<"pending", "in_progress">>, <<"in_progress", "completed">>, <<"in_progress", "failed">>}

\* A step that changes no status against the order: a task that stays in the list
\* keeps its status or moves along StatusOrder; a step that removes tasks changes
\* none of those it keeps.
MonotoneStep ==
    IF Len(tasks') >= Len(tasks)
    THEN \A i \in DOMAIN tasks :
            \/ tasks'[i].status = tasks[i].status
            \/ <<tasks[i].status, tasks'[i].status>> \in StatusOrder
    ELSE \E keep \in SUBSET DOMAIN tasks :
            tasks' = SelectSeq([i \in DOMAIN tasks |-> IF i \in keep THEN tasks[i] ELSE NoTask],
                               LAMBDA t : t # NoTask)

\* C2 as stated: under every operation that writes a status (set_task_status,
\* update_task, reset_all_tasks, the Leader's assignment paths) the status of a task
\* moves only along pending -> in_progress -> {completed, failed}.
C2_StatusMonotone == [][MonotoneStep]_vars

\* C2 amended: every status change made by the Leader's assignment paths moves
\* along pending -> in_progress -> {completed, failed}; only a direct call of
\* set_task_status / update_task or of reset_all_tasks changes a status otherwise.
C2_LeaderStatusMonotone ==
    [][MonotoneStep \/ StoreSetTaskStatus \/ ResetAllTasks]_vars

\* The Leader's serial path has taken a task to a terminal status.
C2_Witness ==
    /\ toolResult \in {"task_completed", "task_failed"}
    /\ \E i \in DOMAIN tasks : tasks[i].status \in {"completed", "failed"}

\* C3: statistics.total is the number of tasks and each status count is the number
\* of tasks with that status, in the document in memory and in the one written.
C3_StatisticsConsistent ==
    /\ statistics.total = Len(tasks)
    /\ statistics.pending = Cardinality({i \in DOMAIN tasks : tasks[i].status = "pending"})
    /\ statistics.in_progress = Cardinality({i \in DOMAIN tasks : tasks[i].status = "in_progress"})
    /\ statistics.completed = Cardinality({i \in DOMAIN tasks : tasks[i].status = "completed"})
    /\ statistics.failed = Cardinality({i \in DOMAIN tasks : tasks[i].status = "failed"})
    /\ tasksFile.statistics = statistics

\* Two tasks of different status, one of them failed, after several mutations.
C3_Witness ==
    /\ Len(tasks) = 2
    /\ statistics.failed = 1
    /\ statistics.completed = 1
    /\ projectStatus = "running"
    /\ TotalNotes(tasks) > 0

\* The two tasks declare a common path in files_to_modify.
SharePath(t1, t2) ==
    \E k \in DOMAIN t1.files_to_modify, l \in DOMAIN t2.files_to_modify :
        t1.files_to_modify[k] = t2.files_to_modify[l]

\* The store's tasks that belong to the parallel run and are in_progress.
RunInProgress ==
    {i \in DOMAIN tasks :
        /\ tasks[i].status = "in_progress"
        /\ \E k \in DOMAIN run.valid : run.valid[k].id = tasks[i].id}

C10_ReadyTasks ==
    LET ready == GetReadyTasks(tasks)
    IN  /\ {ready[k] : k \in DOMAIN ready} =
              {i \in DOMAIN tasks :
                  tasks[i].status = "pending" /\ DependenciesCompleted(tasks, i)}
        /\ \A k, l \in DOMAIN ready : k < l => ready[k] # ready[l]
        /\ \A k, l \in DOMAIN ready : k < l => tasks[ready[k]].priority <= tasks[ready[l]].priority

\* C4: no batch of _get_execution_groups holds two distinct tasks of the input
\* that declare a common path; two tasks that share a file and do not depend on
\* each other come out as two batches of one task each.
C4_ConflictBatching ==
    executionGroups.returned =>
        /\ \A b \in DOMAIN executionGroups.batches : \A i, j \in DOMAIN groupTasks :
              /\ groupTasks[i].id # groupTasks[j].id
              /\ SharePath(groupTasks[i], groupTasks[j])
              => ~({groupTasks[i].id, groupTasks[j].id} \subseteq executionGroups.batches[b])
        /\ /\ Len(groupTasks) = 2
           /\ groupTasks[1].id # groupTasks[2].id
           /\ SharePath(groupTasks[1], groupTasks[2])
           /\ groupTasks[1].id \notin groupTasks[2].dependencies
           /\ groupTasks[2].id \notin groupTasks[1].dependencies
           => /\ Len(executionGroups.batches) = 2
              /\ \A b \in {1, 2} : Cardinality(executionGroups.batches[b]) = 1
              /\ executionGroups.batches[1] # executionGroups.batches[2]

\* Three tasks, the first and the last share a file, and the batches are out.
C4_Witness ==
    /\ executionGroups.returned
    /\ Len(groupTasks) = 3
    /\ groupTasks[3].id # groupTasks[1].id
    /\ SharePath(groupTasks[1], groupTasks[3])
    /\ ~SharePath(groupTasks[1], groupTasks[2])
    /\ Len(executionGroups.batches) = 2

\* Every attempt made so far raised an error that carries a retry keyword.
AllTransient ==
    \A k \in DOMAIN outcomes : outcomes[k].raised /\ outcomes[k].message \in TransientErrors

\* C7: a call whose every attempt raises a transient error returns after exactly
\* MAX_RETRIES + 1 = 4 attempts, with an error text and an empty tool-call list;
\* no call makes more attempts than that, and an attempt that succeeds is the last
\* one and its response is what the call returns.
C7_RetryBound ==
    /\ Len(outcomes) <= 4
    /\ client /\ callResult # NoResult /\ AllTransient
          => /\ Len(outcomes) = 4
             /\ MAX_RETRIES + 1 = 4
             /\ callResult.kind = "error"
             /\ callResult.tool_calls = <<>>
    /\ client /\ callResult = NoResult => AllTransient /\ Len(outcomes) < 4
    /\ \A k \in DOMAIN outcomes :
          ~outcomes[k].raised => k = Len(outcomes) /\ callResult.kind = "response"

\* Four transient errors in a row, and the call has returned.
C7_Witness ==
    /\ callResult.kind = "error"
    /\ Len(outcomes) = 4
    /\ AllTransient
    /\ \E k \in DOMAIN outcomes : outcomes[k].message # outcomes[1].message

\* C8: an attempt that raises an error without a transient signature is the last
\* attempt of the call (the only one when it is the first), and the call returns the
\* error text made from that error with an empty tool-call list.
C8_NoRetryOnPermanent ==
    \A k \in DOMAIN outcomes :
        outcomes[k].raised /\ outcomes[k].message \in PermanentErrors
        => /\ k = Len(outcomes)
           /\ callResult.kind = "error"
           /\ callResult.text[3] = outcomes[k].message
           /\ callResult.tool_calls = <<>>

\* A transient error, then one that is not, and the call has returned.
C8_Witness ==
    /\ Len(outcomes) = 2
    /\ outcomes[1].raised /\ outcomes[1].message \in TransientErrors
    /\ outcomes[2].raised /\ outcomes[2].message \in PermanentErrors
    /\ callResult.kind = "error"

NonSystem(ms) == SelectSeq(ms, LAMBDA m : m.role # "system")

\* C9: when _manage_context runs on a history of more than 50 messages whose first
\* message is the system message, the history it leaves starts with that same
\* system message, has one summary message second, and ends with exactly the last
\* 15 non-system messages of the history before, unchanged and in their order.
C9_Compaction ==
    [][ /\ compressed = "none" /\ compressed' # "none"
        /\ Len(messages) > 50
        /\ messages[1].role = "system"
        => /\ compressed' = "True"
           /\ messages'[1] = messages[1]
           /\ DOMAIN messages'[2] = {"role", "summary"}
           /\ Len(messages') = 15 + 2
           /\ \A k \in 1..15 :
                 messages'[2 + k] = NonSystem(messages)[Len(NonSystem(messages)) - 15 + k]
           /\ historyFile' = messages'
      ]_vars

\* A history has been compacted, and its tail holds messages of several shapes.
C9_Witness ==
    /\ compressed = "True"
    /\ Len(messages) = 17
    /\ messages[1] = SystemMessage
    /\ \E k, l \in 3..17 : messages[k].role = "tool" /\ messages[l].tool_calls

-----------------------------------------------------------------------------
(* Parallel runs: dependencies inside one assign_tasks_parallel call *)

\* The ids of the tasks the run executes.
RunValidIds == {run.valid[k].id : k \in DOMAIN run.valid}

\* The requested pending tasks: those the run took and those it set aside.
RunRequested ==
    {run.valid[k] : k \in DOMAIN run.valid}
        \cup {tasks[GetTask(tasks, run.blocked[k])] : k \in DOMAIN run.blocked}

\* The task's Worker failed in this run.
FailedInRun(id) == id \in DOMAIN run.results /\ run.results[id] = "failed"

\* The run has come to its end, by returning or by an exception.
RunEnded == run.state \notin {"none", "batches", "gather"}

\* C11: in a parallel run a requested task with a dependency that failed in the
\* same run is recorded in the results as skipped and no Worker is started for it
\* (it stays pending), while every task of the run without a failed dependency
\* has still been executed when the run ends.
C11_FailurePropagation ==
    run.state # "none" /\ run.maxConcurrent >= 1 =>
        /\ \A t \in RunRequested :
              (\E d \in t.dependencies : d \in RunValidIds /\ FailedInRun(d))
              => /\ t.id \in DOMAIN run.results
                 /\ run.results[t.id] = "skipped"
                 /\ tasks[GetTask(tasks, t.id)].status = "pending"
        /\ RunEnded =>
              \A t \in RunRequested :
                 (t.id \in RunValidIds /\ \A d \in t.dependencies : ~FailedInRun(d))
                 => /\ t.id \in DOMAIN run.results
                    /\ run.results[t.id] \in {"completed", "failed"}

\* The position of the batch of the run that holds the task, 0 when none does.
BatchOf(id) ==
    IF \E k \in DOMAIN run.groups : id \in run.groups[k]
    THEN CHOOSE k \in DOMAIN run.groups : id \in run.groups[k]
    ELSE 0

\* C12: when an assign_tasks_parallel call lists a pending task together with a
\* pending task it depends on, the dependent task is deferred to a later batch of
\* the same call and is executed only after its dependency has completed; when no
\* Worker of the run failed, both are completed at the end of the call.
C12_DependencyOrdered ==
    run.state # "none" /\ run.maxConcurrent >= 1 =>
        \A t \in RunRequested : \A d \in t.dependencies :
            d \in RunValidIds =>
                /\ BatchOf(t.id) > BatchOf(d)
                /\ t.id \in DOMAIN run.co => TaskStatusMap(tasks, d) = "completed"
                /\ RunEnded /\ (\A id \in RunValidIds : ~FailedInRun(id))
                   => /\ TaskStatusMap(tasks, d) = "completed"
                      /\ TaskStatusMap(tasks, t.id) = "completed"

\* C16: in a parallel run no exception of a Worker's coroutine leaves the run or
\* keeps a sibling from being executed: when the run has ended, every task it took
\* has one outcome in the results (completed, failed or skipped) and none of them
\* is left in_progress.
C16_FailureIsolation ==
    run.state # "none" /\ run.maxConcurrent >= 1 =>
        /\ run.exc = "none"
        /\ RunEnded =>
              \A id \in RunValidIds :
                 /\ id \in DOMAIN run.results
                 /\ run.results[id] \in {"completed", "failed", "skipped"}
                 /\ TaskStatusMap(tasks, id) # "in_progress"

-----------------------------------------------------------------------------
(* TaskManager: task ids *)

\* C20: after any sequence of create_task and clear_completed_tasks, also one that
\* falls into a single second of the clock, no two tasks of the store carry the
\* same id.
C20_UniqueIds ==
    \A i, j \in DOMAIN tasks : i # j => tasks[i].id # tasks[j].id

-----------------------------------------------------------------------------
(* Streamed tool calls *)

\* The tool-call fragments of a stream in their order of arrival.
RECURSIVE FragmentsOf(_)
FragmentsOf(cs) ==
    IF cs = <<>> THEN <<>>
    ELSE (IF Head(cs).choices THEN Head(cs).tool_calls ELSE <<>>) \o FragmentsOf(Tail(cs))

RECURSIVE ConcatNames(_)
ConcatNames(fragments) ==
    IF fragments = <<>> THEN <<>> ELSE Head(fragments).name \o ConcatNames(Tail(fragments))

RECURSIVE ConcatArguments(_)
ConcatArguments(fragments) ==
    IF fragments = <<>> THEN <<>>
    ELSE Head(fragments).arguments \o ConcatArguments(Tail(fragments))

\* C13: the list of tool calls built from a stream has as many entries as the
\* highest fragment index plus one (none without fragments), and the name and the
\* arguments of entry i are the concatenation, in order of arrival, of the name
\* pieces and of the arguments pieces of the fragments with index i.
C13_Reassembly ==
    streamed.done =>
        LET arrived == FragmentsOf(chunks)
            indexes == {arrived[k].index : k \in DOMAIN arrived}
            at(i) == SelectSeq(arrived, LAMBDA f : f.index = i)
        IN  /\ Len(streamed.tool_calls) =
                  IF indexes = {} THEN 0
                  ELSE (CHOOSE i \in indexes : \A j \in indexes : j <= i) + 1
            /\ \A i \in 0..(Len(streamed.tool_calls) - 1) :
                  /\ streamed.tool_calls[i + 1].function.name = ConcatNames(at(i))
                  /\ streamed.tool_calls[i + 1].function.arguments = ConcatArguments(at(i))

\* A stream has been read whose fragments of one call came in several chunks, the
\* arguments in two pieces, around a fragment of another call.
C13_Witness ==
    /\ streamed.done
    /\ Len(streamed.tool_calls) = 2
    /\ streamed.tool_calls[1].function.arguments = <<"a", "b">>
    /\ streamed.tool_calls[2].function.name = <<"f">>
    /\ Len(chunks) = 3 /\ chunks[2].tool_calls # <<>> /\ chunks[2].tool_calls[1].index = 1

-----------------------------------------------------------------------------
(* The Worker's loop *)

\* The model's last response to the Worker carried no tool calls.
LastResponseFinal == callResult.kind # "none" /\ callResult.tool_calls = <<>>

\* The Worker's loop has made its last model call and that response asked for
\* tools, as every one before it.
CapReached ==
    /\ wpc = "returned"
    /\ iteration = max_iterations
    /\ callResult.kind # "none" /\ callResult.tool_calls # <<>>

\* C14, as stated: the Worker's loop makes at most 20 model calls (one per
\* iteration); after 20 iterations that each asked for tools the Worker returns
\* the failure 'iteration cap exceeded' and the task is recorded as failed; a
\* response without tool calls ends the loop at once with success and the text of
\* that response as result.
C14_LoopBound ==
    /\ iteration <= 20
    /\ CapReached =>
          /\ workerReturn = WorkerReturn(FALSE, IterationCapExceeded)
          /\ pc = "idle" => tasks[1].status = "failed"
    /\ LastResponseFinal =>
          /\ wpc = "returned"
          /\ workerReturn = WorkerReturn(TRUE, callResult.text)

\* The same with the result of an empty final response being the text "任务完成".
LoopBoundDefaultText ==
    /\ iteration <= 20
    /\ CapReached =>
          /\ workerReturn = WorkerReturn(FALSE, IterationCapExceeded)
          /\ pc = "idle" => tasks[1].status = "failed"
    /\ LastResponseFinal =>
          /\ wpc = "returned"
          /\ workerReturn =
                WorkerReturn(TRUE, IF callResult.text = <<>> THEN TaskDone
                                   ELSE callResult.text)

\* C14, amended: the Worker's loop makes at most 20 model calls; after 20
\* iterations that each asked for tools the Worker returns the failure 'iteration
\* cap exceeded' and the task is recorded as failed; a response without tool calls
\* ends the loop at once with success and, as result, the text of that response
\* or "任务完成" when that text is empty; and every Worker run returns.
C14_LoopBoundTerminates ==
    []LoopBoundDefaultText /\ <>(wpc = "returned")

\* A Worker went through all its iterations with tool calls, the history having
\* been cut on the way, and its task has been recorded as failed.
C14_Witness ==
    /\ CapReached
    /\ workerReturn = WorkerReturn(FALSE, IterationCapExceeded)
    /\ workerMessages[1].role = "system"
    /\ workerMessages[2].role # "user"
    /\ pc = "idle"
    /\ tasks[1].status = "failed"

\* C15: when the model call of a Worker ends in an error (the error text, no tool
\* calls) the Worker returns a failure and its task is recorded as failed, never
\* as completed.
C15_ModelFailureFailsTask ==
    wpc = "returned" /\ callResult.kind = "error" =>
        /\ ~workerReturn.success
        /\ tasks[1].status # "completed"
        /\ pc = "idle" => tasks[1].status = "failed"

\* The session of the tool's server raises or does not answer in time.
SessionFails(tc) ==
    /\ Len(tc.name) = 2
    /\ tc.name[1] \in ServerParams
    /\ SessionCallTool(tc.name[2]) \in {"raises", "timeout"}

\* C17: when the call of a tool raises or times out inside the tool manager, the
\* error text is appended to the history as the tool message of that call, in the
\* Worker's loop and in the Leader's alike; no exception ends the Worker or the
\* Leader's turn, the other tool calls of the response are still handled, and
\* after the last of them the loop goes on to its next model call.
C17_ToolFailureInBand ==
    [][ /\ wpc = "tools" /\ SessionFails(Head(toolCalls)) =>
              /\ workerMessages' =
                    Append(workerMessages,
                           [role |-> "tool", tool_call_id |-> Head(toolCalls).id,
                            name |-> Head(toolCalls).name, content |-> "call failed"])
              /\ toolCalls' = Tail(toolCalls)
              /\ wpc' = IF Len(toolCalls) > 1 THEN "tools" ELSE "loop"
              /\ workerReturn' = NoReturn
        /\ pc = "leader_tools" /\ leaderToolCalls # <<>>
              /\ SessionFails(Head(leaderToolCalls)) =>
              /\ messages' =
                    Append(messages,
                           [role |-> "tool", tool_call_id |-> Head(leaderToolCalls).id,
                            name |-> Head(leaderToolCalls).name, content |-> "call failed"])
              /\ leaderToolCalls' = Tail(leaderToolCalls)
              /\ pc' = "leader_tools"
        /\ pc = "leader_tools" /\ leaderToolCalls = <<>> => sent' = messages
      ]_vars

\* The Leader has had a tool call fail first and a later call of the same
\* response answered, and has made its next model call with both tool messages.
LeaderToolFailureSeen ==
    /\ Len(sent) >= 4
    /\ sent[Len(sent) - 1].role = "tool" /\ sent[Len(sent) - 1].content = "call failed"
    /\ sent[Len(sent)].role = "tool" /\ sent[Len(sent)].content = "content"

\* A Worker has had a tool call fail first and a later call of the same response
\* answered, and has made its next model call; or the Leader has.
C17_Witness ==
    \/ /\ iteration = 2
       /\ Len(workerMessages) >= 5
       /\ workerMessages[4].role = "tool" /\ workerMessages[4].content = "call failed"
       /\ workerMessages[5].role = "tool" /\ workerMessages[5].content = "content"
    \/ LeaderToolFailureSeen

-----------------------------------------------------------------------------
(* The Leader's history *)

\* C18: every message list the Leader sends to the model, and every list it
\* writes to the history file, has at most 50 messages.
C18_HistoryBounded ==
    /\ Len(sent) <= 50
    /\ Len(historyFile) <= 50

SystemMessages(ms) == SelectSeq(ms, LAMBDA m : m.role = "system")

\* C19: at every model call of the Leader the first message of the list sent is
\* a system message and carries the system prompt built at the start of the turn
\* (at the first call of a turn from the tasks as they are, at a later call the one
\* the turn began with, which no step of the turn touches); and a turn that starts
\* on a history beginning with a system message rewrites that message in place
\* and adds no system message.
C19_SystemMessageFirst ==
    [][ /\ sent' # sent =>
              /\ sent'[1].role = "system"
              /\ pc = "idle" => sent'[1].content = BuildSystemPrompt(tasks)
              /\ pc # "idle" => sent'[1] = messages[1]
        /\ pc # "idle" => messages'[1] = messages[1]
        /\ pc = "idle" /\ pc' # "idle" /\ messages # <<>> /\ messages[1].role = "system" =>
              /\ messages'[1].content = BuildSystemPrompt(tasks)
              /\ Len(SystemMessages(messages')) = Len(SystemMessages(messages))
              /\ SubSeq(messages', 2, Len(messages)) = SubSeq(messages, 2, Len(messages))
        /\ pc # "idle" => Len(SystemMessages(messages')) = Len(SystemMessages(messages))
      ]_vars

\* A second turn has begun after a turn that created a task: the one system
\* message of the history carries the prompt with that task, and a model call of
\* the turn's tool loop has been made with it.
C19_Witness ==
    /\ pc = "leader_tools"
    /\ leaderIteration = 2
    /\ Len(tasks) = 2
    /\ Len(SystemMessages(messages)) = 1
    /\ sent[1].content = BuildSystemPrompt(SubSeq(tasks, 1, 1))
    /\ sent[1].content # BuildSystemPrompt(<<>>)

-----------------------------------------------------------------------------
(* TaskManager: set_task_status *)

\* The step is a call of set_task_status (a call repeated on the state it left
\* changes nothing).
SetStatusReturns == storeCall' # storeCall

\* What a call of set_task_status on an unknown id does.
UnknownIdEffect ==
    /\ ~storeCall'.returned
    /\ UNCHANGED <<tasks, statistics, tasksFile>>

\* What a call on a known id does to status and stamps; the other tasks stay.
KnownIdEffect(i) ==
    /\ storeCall'.returned
    /\ Len(tasks') = Len(tasks)
    /\ \A j \in DOMAIN tasks : j # i => tasks'[j] = tasks[j]
    /\ tasks'[i].status = storeCall'.status
    /\ tasks'[i].started_at = IF storeCall'.status = "in_progress" THEN IsoFormat(now)
                              ELSE tasks[i].started_at
    /\ tasks'[i].completed_at = IF storeCall'.status \in {"completed", "failed"}
                                THEN IsoFormat(now)
                                ELSE tasks[i].completed_at
    /\ tasksFile'.tasks = tasks'

\* C21, as stated: set_task_status on an id that is not in the store returns false
\* and leaves the task list, the statistics and the persisted document unchanged;
\* on a known id it returns true, sets the status, stamps started_at when the new
\* status is in_progress, and stamps completed_at and records the given result
\* (completed) or error (failed) when the new status is terminal.
C21_SetStatus ==
    [][ SetStatusReturns =>
          IF \A j \in DOMAIN tasks : tasks[j].id # storeCall'.task_id
          THEN UnknownIdEffect
          ELSE LET i == GetTask(tasks, storeCall'.task_id)
               IN  /\ KnownIdEffect(i)
                   /\ storeCall'.status = "completed" /\ storeCall'.result # None
                         => tasks'[i].result_summary = storeCall'.result
                   /\ storeCall'.status = "failed" /\ storeCall'.error # None
                         => tasks'[i].error_log = storeCall'.error
      ]_vars

\* C21, amended: the same, with the given result (completed) or error (failed)
\* recorded when it is a text that is not empty; an empty or missing one leaves
\* result_summary and error_log as they were, and so does every other call.
C21_SetStatusNonEmpty ==
    [][ SetStatusReturns =>
          IF \A j \in DOMAIN tasks : tasks[j].id # storeCall'.task_id
          THEN UnknownIdEffect
          ELSE LET i == GetTask(tasks, storeCall'.task_id)
               IN  /\ KnownIdEffect(i)
                   /\ tasks'[i].result_summary =
                         IF /\ storeCall'.status = "completed"
                            /\ storeCall'.result \notin {None, <<>>}
                         THEN storeCall'.result ELSE tasks[i].result_summary
                   /\ tasks'[i].error_log =
                         IF /\ storeCall'.status = "failed"
                            /\ storeCall'.error \notin {None, <<>>}
                         THEN storeCall'.error ELSE tasks[i].error_log
      ]_vars

\* A task has been started, completed with a result and then failed with an
\* error, and the last call, on an unknown id, returned false.
C21_Witness ==
    /\ storeCall.called /\ ~storeCall.returned
    /\ Len(tasks) = 1
    /\ tasks[1].status = "failed"
    /\ tasks[1].started_at = IsoFormat(now)
    /\ tasks[1].completed_at = IsoFormat(now)
    /\ tasks[1].result_summary = <<"result">>
    /\ tasks[1].error_log = <<"error">>

-----------------------------------------------------------------------------
(* TaskManager: persistence *)

\* C22: create_task returns a task with status pending, and after every mutating
\* operation of the TaskManager the document a new TaskManager loads from
\* tasks.json is the document in memory: the same tasks with their statuses and
\* dependencies, the same statistics, the same project status.
C22_PersistenceRoundTrip ==
    [][ /\ LoadTasks(tasksFile') =
              [tasks |-> tasks', statistics |-> statistics', status |-> projectStatus']
        /\ Len(tasks') > Len(tasks) =>
              /\ tasks'[Len(tasks')].status = "pending"
              /\ SubSeq(tasks', 1, Len(tasks)) = tasks
      ]_vars

\* The file holds two tasks, the second depending on the first, one in progress
\* and one pending, after a status has been set.
C22_Witness ==
    /\ Len(tasksFile.tasks) = 2
    /\ tasksFile.tasks[2].dependencies = {tasksFile.tasks[1].id}
    /\ tasksFile.tasks[1].status = "in_progress"
    /\ tasksFile.tasks[2].status = "pending"
    /\ tasksFile.statistics.in_progress = 1
    /\ tasksFile.status = "running"
    /\ LoadTasks(tasksFile).tasks = tasks

-----------------------------------------------------------------------------
(* Interrupted tasks *)

\* The ids create_task can build in a behaviour.
SessionIds == {NewTaskId(SubSeq(<<0, 0, 0, 0>>, 1, k), 0) : k \in 0..MaxTasks}

\* C23: every task that enters in_progress eventually reaches completed or
\* failed, also when the session is interrupted while its Worker runs and the
\* program is started again.
C23_InProgressTransient ==
    \A id \in SessionIds :
        (TaskStatusMap(tasks, id) = "in_progress")
            ~> (TaskStatusMap(tasks, id) \in {"completed", "failed"})

-----------------------------------------------------------------------------
(* Parallel runs: the concurrency limit *)

\* C24: the concurrency limit an assign_tasks_parallel run uses, the value its
\* semaphore is built with, is an integer between 1 and 5, whatever max_concurrent
\* the tool call carried.
C24_ConcurrencyLimit ==
    run.state # "none" =>
        /\ run.maxConcurrent \in 1..5
        /\ run.semaphore \in 1..5

-----------------------------------------------------------------------------
(* Execution groups: partition and order *)

\* The ids of the batches before batch k.
BatchedBefore(batches, k) == UNION {batches[j] : j \in 1..(k - 1)}

\* Batch k was not made of ready tasks: one of its tasks waits, by a dependency
\* of the list or by a file conflict, for a task no earlier batch holds.
FallbackBatch(ts, batches, k) ==
    \E t \in batches[k] : ~(GroupDependencies(ts)[t] \subseteq BatchedBefore(batches, k))

\* C25: _get_execution_groups returns for every task list, also one with a cycle
\* of dependencies or of file conflicts, after at most one pass of its loop per
\* task; what it returns is a partition of the list's tasks into batches, none of
\* them empty, and a batch made by the cycle-breaking fallback holds one task.
C25_GroupsPartition ==
    /\ GetExecutionGroups(groupTasks) # {}
    /\ executionGroups.returned =>
          LET batches == executionGroups.batches
          IN  /\ Len(batches) <= Cardinality(TaskIds(groupTasks))
              /\ \A i \in DOMAIN groupTasks :
                    Cardinality({k \in DOMAIN batches : groupTasks[i].id \in batches[k]}) = 1
              /\ \A k \in DOMAIN batches :
                    /\ batches[k] # {}
                    /\ batches[k] \subseteq TaskIds(groupTasks)
                    /\ FallbackBatch(groupTasks, batches, k) => Cardinality(batches[k]) = 1

\* Three tasks, two of them depending on each other and the third on one of them:
\* the first batch came from the fallback and the batches are out.
C25_Witness ==
    /\ executionGroups.returned
    /\ Len(groupTasks) = 3
    /\ groupTasks[1].dependencies = {groupTasks[2].id}
    /\ groupTasks[2].dependencies = {groupTasks[1].id}
    /\ groupTasks[3].dependencies = {groupTasks[1].id}
    /\ FallbackBatch(groupTasks, executionGroups.batches, 1)
    /\ Len(executionGroups.batches) >= 2

\* The dependencies a task of the list names among the ids of the list.
ExplicitDependencies(ts, id) == TaskMap(ts, id).dependencies \cap TaskIds(ts)

\* What is left of the ids when those with no dependency left are taken away, again
\* and again: nothing exactly when the explicit dependencies have no cycle.
RECURSIVE OnCycles(_, _)
OnCycles(ts, remaining) ==
    LET free == {t \in remaining : ExplicitDependencies(ts, t) \cap remaining = {}}
    IN  IF free = {} THEN remaining ELSE OnCycles(ts, remaining \ free)

\* C28: for a task list whose explicit dependencies (among the tasks of the list)
\* have no cycle, _get_execution_groups puts every task in a batch after the
\* batches of all the tasks of the list it depends on, also when tasks of the list
\* share files.
C28_BatchOrder ==
    executionGroups.returned /\ OnCycles(groupTasks, TaskIds(groupTasks)) = {} =>
        \A k \in DOMAIN executionGroups.batches : \A t \in executionGroups.batches[k] :
            ExplicitDependencies(groupTasks, t) \subseteq BatchedBefore(executionGroups.batches, k)

-----------------------------------------------------------------------------
(* The Worker's history *)

\* The step holds a model call of the Worker's loop.
WorkerModelCall == iteration' = iteration + 1

\* The message list the model call of the step was made with: the history the
\* step leaves, without the assistant message appended for the response.
WorkerSent ==
    IF callResult'.text # <<>> \/ callResult'.tool_calls # <<>>
    THEN SubSeq(workerMessages', 1, Len(workerMessages') - 1)
    ELSE workerMessages'

\* C26, as stated: before a model call of the Worker a message list of more than
\* 50 messages is replaced by the system message followed by exactly the 15 most
\* recent messages in their order, all messages between them being dropped; a
\* shorter list is sent as it is.
C26_WorkerTruncation ==
    [][ WorkerModelCall =>
          WorkerSent =
             IF Len(workerMessages) > 50
             THEN <<workerMessages[1]>>
                     \o SubSeq(workerMessages, Len(workerMessages) - 15 + 1, Len(workerMessages))
             ELSE workerMessages
      ]_vars

\* C26, amended: before a model call of the Worker a message list of more than 50
\* messages is replaced by the system message followed by exactly the 49 most
\* recent messages in their order (50 messages in all), the messages between them
\* being dropped; a shorter list is sent as it is.
C26_WorkerTruncationTo50 ==
    [][ WorkerModelCall =>
          /\ workerMessages[1].role = "system"
          /\ WorkerSent =
                IF Len(workerMessages) > 50
                THEN <<workerMessages[1]>>
                        \o SubSeq(workerMessages, Len(workerMessages) - 49 + 1, Len(workerMessages))
                ELSE workerMessages
          /\ Len(WorkerSent) <= 50
      ]_vars

\* The Worker's history has been cut, its model has been called with the 50
\* messages left, and the message after the system message is a tool message.
C26_Witness ==
    /\ wpc = "tools"
    /\ Len(workerMessages) = 50 + 1
    /\ workerMessages[1].role = "system"
    /\ workerMessages[2].role = "tool"
    /\ workerMessages[51].role = "assistant"

-----------------------------------------------------------------------------
(* Tool-call arguments *)

\* The tool message the step has appended to `after`, whose history was `before`,
\* for the call tc.
Answered(before, after, tc) ==
    /\ Len(after) = Len(before) + 1
    /\ SubSeq(after, 1, Len(before)) = before
    /\ after[Len(after)].role = "tool"
    /\ after[Len(after)].tool_call_id = tc.id

\* C27: malformed arguments never abort a tool call.  Whatever the arguments text
\* of a tool call, in the Worker's loop and in the Leader's, the call is answered
\* with its tool message, no exception ends the Worker or the session, and the
\* loop goes on to the other calls of the response; a text that is JSON once its
\* quotes are normalised is handled as that JSON, and a text that is no JSON in
\* either reading is handled as the empty object.
C27_MalformedArguments ==
    [][ /\ wpc = "tools" =>
              /\ Answered(workerMessages, workerMessages', Head(toolCalls))
              /\ toolCalls' = Tail(toolCalls)
              /\ workerReturn' = NoReturn
              /\ Head(toolCalls).name = <<"report_error_to_leader">> =>
                    workerMessages'[Len(workerMessages')].content =
                        IF Head(toolCalls).arguments \in {ObjectText, QuotedText}
                        THEN "reported" ELSE "reported no text"
        /\ pc = "leader_tools" /\ leaderToolCalls # <<>> =>
              /\ Answered(messages, messages', Head(leaderToolCalls))
              /\ leaderToolCalls' = Tail(leaderToolCalls)
              /\ pc' = "leader_tools"
      ]_vars

-----------------------------------------------------------------------------
(* The order of the Worker's messages *)

\* In the list ms every assistant message with tool calls is followed at once by
\* one tool message per call, in the order of the calls and with their ids, and
\* by no further tool message.
ToolCallsAnswered(ms) ==
    \A i \in 1..Len(ms) :
        ms[i].role = "assistant" /\ ms[i].tool_calls # <<>> =>
            LET n == Len(ms[i].tool_calls)
            IN  /\ i + n <= Len(ms)
                /\ \A k \in 1..n :
                      /\ ms[i + k].role = "tool"
                      /\ ms[i + k].tool_call_id = ms[i].tool_calls[k].id
                /\ i + n < Len(ms) => ms[i + n + 1].role # "tool"

\* C29: a step of the Worker's loop changes the message list only by appending
\* one message, after the cut of a list of more than 50 messages when the step is
\* a model call (the first step builds the list of the two prompt messages); and
\* in the list every model call is made with, every assistant message carrying
\* tool calls is followed at once by exactly one tool message per call, with the
\* calls' ids in their order.
C29_MessageOrdering ==
    [][ /\ workerMessages' # workerMessages =>
              \/ workerMessages = <<>> /\ wpc = "idle"
              \/ /\ Len(workerMessages') = Len(workerMessages) + 1
                 /\ SubSeq(workerMessages', 1, Len(workerMessages)) = workerMessages
              \/ /\ WorkerModelCall
                 /\ Len(workerMessages) > 50
                 /\ Len(workerMessages') <= 50 + 1
                 /\ workerMessages'[1] = workerMessages[1]
                 /\ \A k \in 0..48 :
                       workerMessages'[50 - k] = workerMessages[Len(workerMessages) - k]
        /\ WorkerModelCall => ToolCallsAnswered(WorkerSent)
      ]_vars

\* A response with two tool calls has been answered by its two tool messages,
\* the second call's after the first call's, and the next model call has been
\* made with them and has answered.
C29_Witness ==
    /\ iteration = 2
    /\ Len(workerMessages) >= 6
    /\ workerMessages[3].role = "assistant" /\ Len(workerMessages[3].tool_calls) = 2
    /\ workerMessages[4].role = "tool" /\ workerMessages[4].tool_call_id = <<"call", 1>>
    /\ workerMessages[5].role = "tool" /\ workerMessages[5].tool_call_id = <<"call", 2>>
    /\ workerMessages[6].role = "assistant"

-----------------------------------------------------------------------------
(* Parallel runs: the writes of the Workers of one batch *)

\* The batch of the run at position k has ended: the run has gone past it, or has
\* come to its end in it.
BatchEnded(k) == k < run.batch \/ (k = run.batch /\ RunEnded)

-----------------------------------------------------------------------------
(* TaskManager: clear_completed_tasks *)

\* The step removes no task: every task keeps its position and its id.
NothingRemoved ==
    /\ Len(tasks') >= Len(tasks)
    /\ \A i \in DOMAIN tasks : tasks'[i].id = tasks[i].id

\* C31: clear_completed_tasks removes exactly the tasks whose status is
\* completed and leaves every other task in the store, unchanged and in the same
\* order, in memory and in the file; no other operation removes a task.
C31_ClearCompleted ==
    [][ /\ ClearCompletedTasks =>
              /\ tasks' = SelectSeq(tasks, LAMBDA t : t.status # "completed")
              /\ tasksFile'.tasks = tasks'
        /\ ~ClearCompletedTasks => NothingRemoved
      ]_vars

\* A completed task has been cleared from the head of the store: the task now at
\* the first position is the one created second, and it is not completed.
C31_Witness ==
    /\ Len(tasks) = 1
    /\ tasks[1].id[2] = 2
    /\ tasks[1].status \in {"pending", "in_progress", "failed"}

\* C32: clearing does not block work.  A pending task all of whose dependencies
\* are completed is, after clear_completed_tasks, still returned by
\* get_ready_tasks and still accepted by assign_task and assign_tasks_parallel.
C32_ClearKeepsReady ==
    [][ ClearCompletedTasks =>
          \A i \in DOMAIN tasks : IsReady(tasks, i) =>
              \E j \in DOMAIN tasks' :
                  /\ tasks'[j].id = tasks[i].id
                  /\ \E k \in DOMAIN GetReadyTasks(tasks') : GetReadyTasks(tasks')[k] = j
                  /\ AssignTaskError(tasks', tasks[i].id) = "none"
                  /\ IsValidRequest(tasks', tasks[i].id)
      ]_vars

-----------------------------------------------------------------------------
(* Rejected assignments *)

\* C33: a rejected assignment changes nothing.  An assign_task call that starts
\* no Worker returns an error text and leaves the store and the task in hand as
\* they were; an assign_tasks_parallel call leaves the store as it was, starts no
\* Worker for a task it set aside as dependency-blocked, which stays pending,
\* returns the error text when it takes no task at all, and also returns an error
\* text covering the tasks it set aside when it ends after taking some (with a
\* max_concurrent of 1 or more).
C33_RejectedAssignment ==
    [][ /\ ToolAssignTask /\ pc' = "idle" =>
              /\ toolResult' \in {"not_found", "not_pending", "unmet_dependencies"}
              /\ UNCHANGED <<storeVars, cur>>
        /\ ToolAssignTasksParallel =>
              /\ UNCHANGED <<storeVars, cur>>
              /\ run' = run => toolResult' = "no_executable_tasks"
        /\ run'.state # "none" =>
              \A k \in DOMAIN run'.blocked :
                  /\ run'.blocked[k] \notin DOMAIN run'.co
                  /\ TaskStatusMap(tasks', run'.blocked[k]) = "pending"
        /\ run' # run /\ run'.state \notin {"none", "batches", "gather"}
              /\ run'.maxConcurrent >= 1 /\ run'.blocked # <<>> => toolResult' # "none"
      ]_vars

-----------------------------------------------------------------------------
(* The Worker's history after the cut *)

\* In the list ms the tool message at position i answers a call of the assistant
\* message before it, with nothing but tool messages between the two.
ToolMessageRequested(ms, i) ==
    \E j \in 1..(i - 1) :
        /\ ms[j].role = "assistant"
        /\ \E k \in DOMAIN ms[j].tool_calls : ms[j].tool_calls[k].id = ms[i].tool_call_id
        /\ \A m \in (j + 1)..(i - 1) : ms[m].role = "tool"

\* C34: in every message list a Worker sends to the model, each message with
\* role tool is preceded by the assistant message whose tool_calls hold its
\* tool_call_id: the cut never keeps a tool message and drops the assistant
\* message that asked for it.
C34_TruncationWellFormed ==
    [][ WorkerModelCall =>
          \A i \in DOMAIN WorkerSent :
              WorkerSent[i].role = "tool" => ToolMessageRequested(WorkerSent, i)
      ]_vars

-----------------------------------------------------------------------------
(* Parallel runs: the call returns *)

\* The run was cut short from outside: the user interrupted the session while
\* the call was awaited.
RunInterrupted == pc = "exited" /\ run.state \in {"batches", "gather"}

\* C35: assign_tasks_parallel always returns.  Whatever max_concurrent the call
\* was given, a call that has taken at least one task comes back to the Leader
\* with its summary, unless the user interrupts it: no coroutine waits for ever
\* on the semaphore and no exception ends the call.
C35_ParallelReturns ==
    (pc = "run" /\ run.state # "none") ~>
        (RunInterrupted \/ (pc = "idle" /\ run.state = "returned"))

-----------------------------------------------------------------------------
(* The Leader's tool-call loop *)

\* The message carries tool calls.
HasToolCalls(m) == "tool_calls" \in DOMAIN m /\ m.tool_calls # <<>>

\* In the Leader's list ms every assistant message with tool calls is followed at
\* once by one tool message per call, in the order of the calls and with their
\* ids, and by no further tool message.
LeaderToolCallsAnswered(ms) ==
    \A i \in 1..Len(ms) :
        ms[i].role = "assistant" /\ HasToolCalls(ms[i]) =>
            LET n == Len(ms[i].tool_calls)
            IN  /\ i + n <= Len(ms)
                /\ \A k \in 1..n :
                      /\ ms[i + k].role = "tool"
                      /\ ms[i + k].tool_call_id = ms[i].tool_calls[k].id
                /\ i + n < Len(ms) => ms[i + n + 1].role # "tool"

-----------------------------------------------------------------------------
(* LeaderAI: the memory of the MCP permissions *)

\* _check_mcp_permission lets the tool through without asking the user.
Allowed(perms, tool) == CheckMcpPermission(perms, tool) \in {1, 2, 3}

\* C37: after the user has chosen option 4 (allow all plugins) in
\* _request_mcp_permission, _check_mcp_permission gives an allowed result, not
\* -1, for every tool of every plugin; after option 3 (allow this plugin) it
\* gives an allowed result for every tool of that plugin and what it gave before
\* for the tools of the other plugins; and a tool once allowed stays allowed.
C37_PermissionMemory ==
    [][ /\ permission'.called = "request" /\ permission'.choice = "4" =>
              \A tool \in PermissionTools : Allowed(mcpPermissions', tool)
        /\ permission'.called = "request" /\ permission'.choice = "3"
              /\ Len(permission'.tool) = 2 =>
              \A tool \in PermissionTools :
                  IF Len(tool) = 2 /\ tool[1] = permission'.tool[1]
                  THEN Allowed(mcpPermissions', tool)
                  ELSE CheckMcpPermission(mcpPermissions', tool)
                          = CheckMcpPermission(mcpPermissions, tool)
        /\ \A tool \in PermissionTools :
              Allowed(mcpPermissions, tool) => Allowed(mcpPermissions', tool)
      ]_vars

-----------------------------------------------------------------------------
(* ModelInterface.call_async: tool calls written as text *)

\* C38: when the response carries no structured tool call, tools were passed and
\* the text holds a functions.<name>:<idx> marker followed by a JSON object,
\* call_async returns a synthetic tool call with that name and those arguments:
\* the cleaning done before the scan leaves what the scan looks for.
C38_TextFallback ==
    callResult # NoResult /\ provided # NotProvided
        /\ provided.tool_calls = <<>> /\ provided.tools =>
        \A i \in 1..(Len(provided.content) - 1) :
            /\ provided.content[i] = MarkerText
            /\ provided.content[i + 1] \in {StringObjectText, NumberObjectText}
            => \E k \in DOMAIN callResult.tool_calls :
                  /\ callResult.tool_calls[k].function.name = <<"f">>
                  /\ callResult.tool_calls[k].function.arguments = provided.content[i + 1]

====
